---------------------------- MODULE Spec2Model ----------------------------
(***************************************************************************)
(* Memory & Pattern Recognition Engine of LunaAI.                          *)
(*                                                                         *)
(*   memory/memory_database.py    MemoryDatabase  (the store)              *)
(*   memory/pattern_extractor.py  AlgorithmicPatternExtractor              *)
(*   memory/pattern_analyzer.py   LLMPatternAnalyzer                       *)
(*   memory/pattern_recognizer.py PatternRecognizer (the cycle)            *)
(*   tools/callbacks/__init__.py  after_tool_callback,                     *)
(*                                await_pending_analysis                   *)
(*                                                                         *)
(* Confidence is a REAL column (an IEEE double).  It is modelled in fixed  *)
(* point: the integer c stands for c / SCALE, and every product is rounded *)
(* to the nearest multiple of 1 / SCALE.  Time is counted in minutes.      *)
(*                                                                         *)
(*   SpecStore   the store under direct callers                            *)
(*   Spec        callbacks, recognition cycles and the shutdown wait       *)
(*   SpecRace    reinforce / weaken statement by statement, two callers    *)
(*   SpecFilter  the relevance filter over logs of every length            *)
(*   SpecCallback  after_tool_callback with the constructors as shipped    *)
(*   SpecCycle   recognition cycles awaited one after the other            *)
(*   SpecReinforce  reinforce_memory from every confidence in [0, 1]       *)
(*   SpecLog     the execution log next to the store and the cycles        *)
(*   SpecExtract the extractor's analytics over logs that grow with time   *)
(*   SpecQuery   get_memories over stores of direct callers, any factor    *)
(*   SpecCount   the counting callback of tool_callbacks.py                *)
(*   SpecLive    the engine under the scheduling of the event loop         *)
(*   SpecRelated the relevance filter over two executions of any two tools *)
(***************************************************************************)
EXTENDS Integers, Sequences, FiniteSets, TLC

VARIABLES
    memories,         \* table memories: id -> [memory, confidence, last_updated]
    mem_seq,          \* sqlite_sequence row of memories (AUTOINCREMENT high-water mark)
    tool_executions,  \* table tool_executions, in insertion order
    exec_seq,         \* sqlite_sequence row of tool_executions
    now,              \* the wall clock, in minutes
    ret,              \* what the last store call returned to its caller
    budget,           \* store calls the direct callers may still make
    tasks,            \* the recognition tasks created so far, by creation order
                      \* (under SpecRace: the callers inside reinforce / weaken)
    active,           \* _active_analysis_tasks
    waiter,           \* the caller of await_pending_analysis
    running           \* the task the event loop is running (0: none)

store_vars == <<memories, mem_seq, tool_executions, exec_seq, now, ret, budget>>

cycle_vars == <<tasks, active, waiter, running>>

vars == <<memories, mem_seq, tool_executions, exec_seq, now, ret, budget,
          tasks, active, waiter, running>>

-----------------------------------------------------------------------------
(* Numbers                                                                 *)

SCALE == 10000

Min(a, b) == IF a <= b THEN a ELSE b
Max(a, b) == IF a >= b THEN a ELSE b

\* n / d rounded to the nearest integer (d > 0)
RoundDiv(n, d) == (2 * n + d) \div (2 * d)

\* a * b for fixed-point a, b
FMul(a, b) == RoundDiv(a * b, SCALE)

DefaultConfidence     == 5000   \* add_memory(confidence=0.5)
DefaultReinforce      == 1000   \* reinforce_memory(factor=0.1)
DefaultWeaken         == 2000   \* weaken_memory(factor=0.2)
DefaultCleanup        == 1000   \* auto_cleanup_threshold=0.1 / threshold=0.1

\* what a store call hands back: the call, its arguments, the confidence it read
\* (current_confidence, -1 when no row was read) and the returned value
Ret(op, id, factor, threshold, old, value) ==
    [op |-> op, id |-> id, factor |-> factor, threshold |-> threshold,
     old |-> old, value |-> value]

NoRet == Ret("none", 0, 0, 0, -1, "None")

-----------------------------------------------------------------------------
(* MemoryDatabase: the operations as functions of the table                *)

Row(text, confidence, t) ==
    [memory |-> text, confidence |-> confidence, last_updated |-> t]

\* id INTEGER PRIMARY KEY without AUTOINCREMENT: one more than the largest id stored
add_memory_rowid(mems, seq, text, confidence, t) ==
    LET top == IF DOMAIN mems = {} THEN 0
               ELSE CHOOSE i \in DOMAIN mems : \A j \in DOMAIN mems : j <= i
    IN  [mems  |-> [i \in DOMAIN mems \cup {top + 1} |->
                       IF i = top + 1 THEN Row(text, confidence, t) ELSE mems[i]],
         seq   |-> top + 1,
         value |-> top + 1]

\* an INSERT that takes the id of the newest row instead of a fresh one
add_memory_reuses_id(mems, seq, text, confidence, t) ==
    [mems  |-> [i \in DOMAIN mems \cup {Max(seq, 1)} |->
                   IF i = Max(seq, 1) THEN Row(text, confidence, t) ELSE mems[i]],
     seq   |-> Max(seq, 1),
     value |-> Max(seq, 1)]

\* INSERT INTO memories (memory, confidence): AUTOINCREMENT gives seq + 1
add_memory(mems, seq, text, confidence, t) ==
    [mems  |-> [i \in DOMAIN mems \cup {seq + 1} |->
                   IF i = seq + 1 THEN Row(text, confidence, t) ELSE mems[i]],
     seq   |-> seq + 1,
     value |-> seq + 1]

\* the increment is not scaled by the room left: current + factor
ReinforcedConfidence_linear(current, factor) ==
    Min(SCALE, current + factor)

\* the min(1.0, ...) is missing
ReinforcedConfidence_unclamped(current, factor) ==
    current + FMul(factor, SCALE - current)

\* new_confidence = min(1.0, current + factor * (1.0 - current))
ReinforcedConfidence(current, factor) ==
    Min(SCALE, current + FMul(factor, SCALE - current))

reinforce_memory(mems, memory_id, factor, t) ==
    IF memory_id \in DOMAIN mems
    THEN [mems  |-> [mems EXCEPT ![memory_id] =
                        [@ EXCEPT !.confidence = ReinforcedConfidence(@, factor),
                                  !.last_updated = t]],
          value |-> "True"]
    ELSE [mems |-> mems, value |-> "False"]

\* the sign of the factor slipped: current * (1.0 + factor)
WeakenedConfidence_grows(current, factor) ==
    Max(0, FMul(current, SCALE + factor))

\* new_confidence = max(0.0, current * (1.0 - factor))
WeakenedConfidence(current, factor) ==
    Max(0, FMul(current, SCALE - factor))

\* the eviction branch forgotten: the weakened value is always stored
weaken_memory_keeps(mems, memory_id, factor, auto_cleanup_threshold, t) ==
    IF memory_id \in DOMAIN mems
    THEN [mems  |-> [mems EXCEPT ![memory_id] =
                        [@ EXCEPT !.confidence = Max(0, FMul(@, SCALE - factor)),
                                  !.last_updated = t]],
          value |-> "True"]
    ELSE [mems |-> mems, value |-> "False"]

weaken_memory(mems, memory_id, factor, auto_cleanup_threshold, t) ==
    IF memory_id \in DOMAIN mems
    THEN LET new_confidence == WeakenedConfidence(mems[memory_id].confidence, factor)
         IN  IF new_confidence < auto_cleanup_threshold
             THEN [mems  |-> [i \in DOMAIN mems \ {memory_id} |-> mems[i]],
                   value |-> "deleted"]
             ELSE [mems  |-> [mems EXCEPT ![memory_id] =
                                 [@ EXCEPT !.confidence = new_confidence,
                                           !.last_updated = t]],
                   value |-> "True"]
    ELSE [mems |-> mems, value |-> "False"]

\* an UPDATE that also sets confidence back to the column default
update_memory_content_resets(mems, memory_id, new_text, t) ==
    IF memory_id \in DOMAIN mems
    THEN [mems  |-> [mems EXCEPT ![memory_id] = Row(new_text, DefaultConfidence, t)],
          value |-> "True"]
    ELSE [mems |-> mems, value |-> "False"]

\* an update that inserts the row when the id is unknown
update_memory_content_upserts(mems, memory_id, new_text, t) ==
    [mems  |-> [i \in DOMAIN mems \cup {memory_id} |->
                   IF i = memory_id
                   THEN Row(new_text,
                            IF i \in DOMAIN mems THEN mems[i].confidence
                            ELSE DefaultConfidence, t)
                   ELSE mems[i]],
     value |-> "True"]

\* UPDATE memories SET memory = ?, last_updated = CURRENT_TIMESTAMP WHERE id = ?
update_memory_content(mems, memory_id, new_text, t) ==
    IF memory_id \in DOMAIN mems
    THEN [mems  |-> [mems EXCEPT ![memory_id] =
                        [@ EXCEPT !.memory = new_text, !.last_updated = t]],
          value |-> "True"]
    ELSE [mems |-> mems, value |-> "False"]

\* DELETE FROM memories WHERE confidence < ?
cleanup_low_confidence_memories_none(mems, threshold) ==
    [mems |-> mems, value |-> 0]

cleanup_low_confidence_memories(mems, threshold) ==
    LET kept == {i \in DOMAIN mems : ~(mems[i].confidence < threshold)}
    IN  [mems  |-> [i \in kept |-> mems[i]],
         value |-> Cardinality(DOMAIN mems) - Cardinality(kept)]

\* ORDER BY confidence DESC, last_updated DESC (remaining ties: by rowid)
Before(mems, i, j) ==
    \/ mems[i].confidence > mems[j].confidence
    \/ /\ mems[i].confidence = mems[j].confidence
       /\ \/ mems[i].last_updated > mems[j].last_updated
          \/ mems[i].last_updated = mems[j].last_updated /\ i < j

RECURSIVE OrderIds(_, _)
OrderIds(mems, ids) ==
    IF ids = {} THEN <<>>
    ELSE LET first == CHOOSE i \in ids : \A j \in ids \ {i} : Before(mems, i, j)
         IN  <<first>> \o OrderIds(mems, ids \ {first})

Take(s, n) == IF Len(s) <= n THEN s ELSE SubSeq(s, 1, n)

NoLimit == -1      \* limit: int = None

\* the whole ordered selection, whatever the limit
get_memories_unlimited(mems, min_confidence, limit) ==
    OrderIds(mems, {i \in DOMAIN mems : mems[i].confidence >= min_confidence})

\* get_memories(min_confidence, limit): the ids, in result order. `if limit:` is
\* false for None and for 0, and SQLite reads a negative LIMIT as no limit
get_memories(mems, min_confidence, limit) ==
    LET rows == OrderIds(mems, {i \in DOMAIN mems : mems[i].confidence >= min_confidence})
    IN  IF limit > 0 THEN Take(rows, limit) ELSE rows

Visible(mems) ==
    LET rows == get_memories(mems, 0, 0) IN {rows[k] : k \in 1..Len(rows)}

-----------------------------------------------------------------------------
(* Tool executions and their arguments                                     *)

\* A JSON string value is the sequence of its whitespace-separated words; a JSON
\* list of strings is a sequence of such values.
StrValue(words)  == [type |-> "str",  words |-> words, items |-> <<>>]
ListValue(items) == [type |-> "list", words |-> <<>>,  items |-> items]

\* the arguments column: NULL, or the dict json.loads gives back
NullArgs   == [isnull |-> TRUE,  dict |-> <<>>]
Dict(d)    == [isnull |-> FALSE, dict |-> d]
EmptyArgs  == Dict(<<>>)

Exec(id, tool, arguments, timestamp) ==
    [id |-> id, tool |-> tool, arguments |-> arguments, timestamp |-> timestamp]

\* an INSERT OR REPLACE keyed by the tool: the earlier rows of the tool are lost
log_tool_execution_replaces(log, seq, tool_name, tool_arguments, timestamp) ==
    [log   |-> Append(SelectSeq(log, LAMBDA e : e.tool # tool_name),
                      Exec(seq + 1, tool_name, tool_arguments, timestamp)),
     seq   |-> seq + 1,
     value |-> seq + 1]

\* INSERT INTO tool_executions: one row appended, AUTOINCREMENT id
log_tool_execution(log, seq, tool_name, tool_arguments, timestamp) ==
    [log   |-> Append(log, Exec(seq + 1, tool_name, tool_arguments, timestamp)),
     seq   |-> seq + 1,
     value |-> seq + 1]

\* ORDER BY timestamp DESC (rows of one timestamp: latest insertion first)
Newer(e, f) ==
    \/ e.timestamp > f.timestamp
    \/ e.timestamp = f.timestamp /\ e.id > f.id

RECURSIVE OrderExecs(_, _)
OrderExecs(log, idx) ==
    IF idx = {} THEN <<>>
    ELSE LET first == CHOOSE k \in idx : \A j \in idx \ {k} : Newer(log[k], log[j])
         IN  <<log[first]>> \o OrderExecs(log, idx \ {first})

\* get_tool_executions(tool_name, limit); tool_name "" is None
get_tool_executions(log, tool_name, limit) ==
    Take(OrderExecs(log, {k \in 1..Len(log) : tool_name = "" \/ log[k].tool = tool_name}),
         limit)

-----------------------------------------------------------------------------
(* AlgorithmicPatternExtractor: relevance filtering                        *)

MinutesPerDay    == 1440
DaysToAnalyze    == 30      \* PatternRecognizer(days_to_analyze=30)
ProximityMinutes == 120     \* time_diff <= 7200 seconds
MaxRelevant      == 20      \* relevant_executions[:20]
ExecutionLimit   == 1000    \* get_tool_executions(limit=1000)

music_tools  == {"play_song", "pause_music", "next_song", "previous_song", "set_volume",
                 "search_spotify", "add_to_playlist", "save_track"}
search_tools == {"google_search", "search_memory", "search_spotify", "search_notion"}
browse_tools == {"open_url", "navigate_to", "click_element", "scroll_page"}
memory_tools == {"save_memory", "search_memory", "modify_memory", "delete_memory"}
file_tools   == {"read_file", "write_file", "create_document", "edit_document"}
comm_tools   == {"send_email", "send_message", "make_call"}

_get_related_tools(target_tool) ==
    IF target_tool \in music_tools THEN music_tools
    ELSE IF target_tool \in search_tools THEN search_tools
    ELSE IF target_tool \in browse_tools THEN browse_tools
    ELSE IF target_tool \in memory_tools THEN memory_tools
    ELSE IF target_tool \in file_tools THEN file_tools
    ELSE IF target_tool \in comm_tools THEN comm_tools
    ELSE {target_tool}

\* str.lower() on the words the model uses
Lower(w) ==
    CASE w = "EDM"      -> "edm"
      [] w = "Skrillex" -> "skrillex"
      [] w = "The"      -> "the"
      [] OTHER          -> w

Range(q) == {q[k] : k \in 1..Len(q)}

RECURSIVE StrLen(_)
\* len(value) of the string whose words are ws
StrLen(ws) ==
    IF ws = <<>> THEN 0
    ELSE Len(Head(ws)) + (IF Len(ws) > 1 THEN 1 ELSE 0) + StrLen(Tail(ws))

stop_words ==
    {"the", "and", "for", "are", "but", "not", "you", "all", "can", "had", "her", "was",
     "one", "our", "out", "day", "get", "has", "him", "his", "how", "its", "may", "new",
     "now", "old", "see", "two", "who", "boy", "did", "man", "way", "where", "with",
     "this", "that", "they", "will", "from", "have", "been", "said", "each", "which",
     "what", "were", "when", "more", "than", "into", "very", "after", "first", "well",
     "just", "like", "over", "also", "back", "other", "many", "then", "them", "these",
     "some", "time", "would", "could", "should", "about", "there", "their", "only",
     "come", "work", "know", "take", "year", "good", "much", "make", "most", "long",
     "little", "great", "right", "still", "small", "large", "such", "here", "even",
     "both", "last", "next", "same", "find", "give", "place", "want", "need", "seem",
     "high", "every", "between", "never", "being", "again", "around", "through",
     "during", "before", "another", "too"}

list_stop_words ==
    {"the", "and", "for", "are", "but", "not", "you", "all", "can", "had", "her", "was",
     "one", "our", "out", "day", "get", "has", "him", "his", "how", "its", "may", "new",
     "now", "old", "see", "two", "who", "boy", "did", "man", "way", "where", "with"}

\* [word.lower().strip() for word in value.split() if len(word) > 2], stop words dropped
MeaningfulWords(ws, stops) ==
    IF StrLen(ws) > 2
    THEN {Lower(w) : w \in {v \in Range(ws) : Len(v) > 2}} \ stops
    ELSE {}

\* _extract_key_terms(arguments) for a dict
_extract_key_terms(d) ==
    UNION {IF d[key].type = "str" THEN MeaningfulWords(d[key].words, stop_words)
           ELSE IF d[key].type = "list"
           THEN UNION {MeaningfulWords(d[key].items[k], list_stop_words) :
                          k \in 1..Len(d[key].items)}
           ELSE {} : key \in DOMAIN d}

\* args.get(key, "") lowered, as a word sequence ("" when absent or no string)
LowerValue(d, key) ==
    IF key \in DOMAIN d /\ d[key].type = "str"
    THEN [k \in 1..Len(d[key].words) |-> Lower(d[key].words[k])]
    ELSE <<>>

\* val1 in val2 for strings made of whole words
Contains(big, small) ==
    \E k \in 0..(Len(big) - Len(small)) : SubSeq(big, k + 1, k + Len(small)) = small

Truthy(arguments) == ~arguments.isnull /\ DOMAIN arguments.dict # {}

_has_similar_context(exec1, exec2) ==
    IF ~Truthy(exec1.arguments) \/ ~Truthy(exec2.arguments) THEN FALSE
    ELSE LET args1  == exec1.arguments.dict
             args2  == exec2.arguments.dict
             query1 == LowerValue(args1, "query")
             query2 == LowerValue(args2, "query")
             both(tools) == exec1.tool \in tools /\ exec2.tool \in tools
         IN  IF both({"google_search", "search_spotify"}) /\ query1 # <<>> /\ query2 # <<>>
             THEN Cardinality(Range(query1) \cap Range(query2)) >= 2
             ELSE /\ both({"play_song", "search_spotify"})
                  /\ \E key \in {"artist", "track", "song", "query"} :
                        LET val1 == LowerValue(args1, key)
                            val2 == LowerValue(args2, key)
                        IN  /\ val1 # <<>> /\ val2 # <<>>
                            /\ (Contains(val2, val1) \/ Contains(val1, val2))

\* _has_related_intent(exec1, exec2), both arguments being dicts
_has_related_intent(exec1, exec2) ==
    LET terms1 == _extract_key_terms(exec1.arguments.dict)
        terms2 == _extract_key_terms(exec2.arguments.dict)
    IN  terms1 # {} /\ terms2 # {} /\ (terms1 \cap terms2) # {}

\* the keyword branch (lines 343-354)
KeywordOverlap(exec, target_execution) ==
    LET target_keywords == _extract_key_terms(target_execution.arguments.dict)
        exec_keywords   == _extract_key_terms(exec.arguments.dict)
    IN  /\ (target_keywords \cap exec_keywords) # {}
        /\ \E keyword \in exec_keywords : keyword \in target_keywords /\ Len(keyword) > 3

\* the most recent execution of the target tool (executions are newest first):
\* its index, 0 when there is none
TargetIndex(executions, target_tool) ==
    LET hits == {k \in 1..Len(executions) : executions[k].tool = target_tool}
    IN  IF hits = {} THEN 0 ELSE CHOOSE k \in hits : \A j \in hits : k <= j

InWindow(exec, days_back, t) == ~(exec.timestamp < t - days_back * MinutesPerDay)

Abs(x) == IF x < 0 THEN -x ELSE x

\* the loop body's decision for one execution, which leaves out rows before the cutoff
Relevant(exec, target_execution, target_tool, days_back, t) ==
    /\ InWindow(exec, days_back, t)
    /\ \/ exec.tool = target_tool
       \/ /\ exec.tool \in _get_related_tools(target_tool)
          /\ \/ Abs(exec.timestamp - target_execution.timestamp) <= ProximityMinutes
             \/ _has_similar_context(exec, target_execution)
       \/ _has_related_intent(exec, target_execution)
       \/ KeywordOverlap(exec, target_execution)

\* an execution whose arguments are NULL reaches _extract_key_terms(None): it raises
ReachesKeyTerms(exec, target_execution, target_tool, days_back, t) ==
    /\ InWindow(exec, days_back, t)
    /\ exec.tool # target_tool
    /\ ~(/\ exec.tool \in _get_related_tools(target_tool)
         /\ \/ Abs(exec.timestamp - target_execution.timestamp) <= ProximityMinutes
            \/ _has_similar_context(exec, target_execution))

FilterRaises(executions, target_tool, days_back, t) ==
    LET ti == TargetIndex(executions, target_tool)
    IN  /\ ti # 0
        /\ \/ executions[ti].arguments.isnull
           \/ \E k \in 1..Len(executions) :
                 /\ executions[k].arguments.isnull
                 /\ ReachesKeyTerms(executions[k], executions[ti], target_tool, days_back, t)

\* the filter without its final slice
_filter_relevant_executions_uncapped(executions, target_tool, days_back, t) ==
    LET ti == TargetIndex(executions, target_tool)
    IN  IF ti = 0 THEN <<>>
        ELSE SelectSeq(executions,
                       LAMBDA exec : Relevant(exec, executions[ti], target_tool,
                                              days_back, t))

\* _filter_relevant_executions(executions, target_tool, days_back) when it returns
_filter_relevant_executions(executions, target_tool, days_back, t) ==
    LET ti == TargetIndex(executions, target_tool)
    IN  IF ti = 0 THEN <<>>
        ELSE Take(SelectSeq(executions,
                            LAMBDA exec : Relevant(exec, executions[ti], target_tool,
                                                   days_back, t)),
                  MaxRelevant)

\* extract_similar_tool_patterns / generate_similar_tool_summary, as far as the
\* recognizer reads it: analysis_metadata.total_executions, 0 when the key is missing
\* ("No tool executions found"); raised when _filter_relevant_executions raises.
\* target_tool "" is None: the most recent execution's tool is taken.
generate_similar_tool_summary(log, target_tool, days_back, t) ==
    LET executions == get_tool_executions(log, "", ExecutionLimit)
        target     == IF target_tool = "" /\ executions # <<>>
                      THEN executions[1].tool ELSE target_tool
    IN  IF target = ""
        THEN [raised |-> FALSE, target_tool |-> target, total_executions |-> 0,
              relevant |-> <<>>]
        ELSE IF FilterRaises(executions, target, days_back, t)
        THEN [raised |-> TRUE, target_tool |-> target, total_executions |-> 0,
              relevant |-> <<>>]
        ELSE LET relevant_executions ==
                     _filter_relevant_executions(executions, target, days_back, t)
             IN  [raised |-> FALSE, target_tool |-> target,
                  total_executions |-> Len(relevant_executions),
                  relevant |-> relevant_executions]

-----------------------------------------------------------------------------
(* Bounds and inputs of the direct callers of the store                    *)

MaxId    == 2      \* memories created per database
MaxCalls == 4      \* store calls made by direct callers
MaxTime  == 1      \* clock ticks

Texts            == {"likes EDM", "likes jazz"}
AddConfidences   == {DefaultConfidence, 500, 12000}
ReinforceFactors == {DefaultReinforce, SCALE}
WeakenFactors    == {DefaultWeaken, 5000}
Thresholds       == {DefaultCleanup, 3000}
MemoryIds        == 1..(MaxId + 1)

EmptyTable == [i \in {} |-> Row("", 0, 0)]

OldConfidence(memory_id) ==
    IF memory_id \in DOMAIN memories THEN memories[memory_id].confidence ELSE -1

-----------------------------------------------------------------------------
(* Direct calls of the store (scripts, tests, other components)            *)

AddMemory(text, confidence) ==
    /\ budget > 0
    /\ mem_seq < MaxId
    /\ LET r == add_memory(memories, mem_seq, text, confidence, now)
       IN  /\ memories' = r.mems
           /\ mem_seq' = r.seq
           /\ ret' = Ret("add_memory", r.value, confidence, 0, -1, "id")
    /\ budget' = budget - 1
    /\ UNCHANGED <<tool_executions, exec_seq, now>>

ReinforceMemory(memory_id, factor) ==
    /\ budget > 0
    /\ LET r == reinforce_memory(memories, memory_id, factor, now)
       IN  /\ memories' = r.mems
           /\ ret' = Ret("reinforce_memory", memory_id, factor, 0,
                         OldConfidence(memory_id), r.value)
    /\ budget' = budget - 1
    /\ UNCHANGED <<mem_seq, tool_executions, exec_seq, now>>

WeakenMemory(memory_id, factor, threshold) ==
    /\ budget > 0
    /\ LET r == weaken_memory(memories, memory_id, factor, threshold, now)
       IN  /\ memories' = r.mems
           /\ ret' = Ret("weaken_memory", memory_id, factor, threshold,
                         OldConfidence(memory_id), r.value)
    /\ budget' = budget - 1
    /\ UNCHANGED <<mem_seq, tool_executions, exec_seq, now>>

UpdateMemoryContent(memory_id, new_text) ==
    /\ budget > 0
    /\ LET r == update_memory_content(memories, memory_id, new_text, now)
       IN  /\ memories' = r.mems
           /\ ret' = Ret("update_memory_content", memory_id, 0, 0,
                         OldConfidence(memory_id), r.value)
    /\ budget' = budget - 1
    /\ UNCHANGED <<mem_seq, tool_executions, exec_seq, now>>

CleanupLowConfidence(threshold) ==
    /\ budget > 0
    /\ LET r == cleanup_low_confidence_memories(memories, threshold)
       IN  /\ memories' = r.mems
           /\ ret' = Ret("cleanup_low_confidence_memories", r.value, 0, threshold,
                         -1, "count")
    /\ budget' = budget - 1
    /\ UNCHANGED <<mem_seq, tool_executions, exec_seq, now>>

\* the clock advances by d minutes
Tick(d) ==
    /\ now < MaxTime * d
    /\ now' = now + d
    /\ UNCHANGED <<memories, mem_seq, tool_executions, exec_seq, ret, budget>>

NoWaiter == [pc |-> "idle", gathered |-> {}]

InitStore ==
    /\ memories = EmptyTable
    /\ mem_seq = 0
    /\ tool_executions = <<>>
    /\ exec_seq = 0
    /\ now = 0
    /\ ret = NoRet
    /\ budget = MaxCalls
    /\ tasks = <<>>
    /\ active = {}
    /\ waiter = NoWaiter
    /\ running = 0

DirectCalls ==
    \/ \E text \in Texts, confidence \in AddConfidences : AddMemory(text, confidence)
    \/ \E memory_id \in MemoryIds, factor \in ReinforceFactors :
          ReinforceMemory(memory_id, factor)
    \/ \E memory_id \in MemoryIds, factor \in WeakenFactors, threshold \in Thresholds :
          WeakenMemory(memory_id, factor, threshold)
    \/ \E memory_id \in MemoryIds, new_text \in Texts :
          UpdateMemoryContent(memory_id, new_text)
    \/ \E threshold \in Thresholds : CleanupLowConfidence(threshold)

NextStore ==
    \/ DirectCalls /\ UNCHANGED cycle_vars
    \/ Tick(1) /\ UNCHANGED cycle_vars

SpecStore == InitStore /\ [][NextStore]_vars

-----------------------------------------------------------------------------
(* PatternRecognizer: one recognition cycle per task                       *)

MinRelevantExecutions == 3      \* if total_executions < 3: skipped
CycleCleanupThreshold == 1000   \* cleanup_threshold = 0.1

Mod(action, id, memory) == [action |-> action, id |-> id, memory |-> memory]

\* one modification of the analyzer's list; id 0 is null, memory "" is null
Create(text)      == Mod("create", 0, text)
Reinforce(id)     == Mod("reinforce", id, "")
Weaken(id)        == Mod("weaken", id, "")
Update(id, text)  == Mod("update_content", id, text)

\* a loop body that reports every reinforce as saved, whether or not the memory
\* exists, and ignores the other actions but create
apply_modification_reports_all(mems, seq, mod, t) ==
    IF mod.action = "create" /\ mod.memory # ""
    THEN LET r == add_memory(mems, seq, mod.memory, DefaultConfidence, t)
         IN  [mems |-> r.mems, seq |-> r.seq,
              saved |-> <<[action |-> "created", id |-> r.value]>>, failed |-> <<>>]
    ELSE IF mod.action = "reinforce"
    THEN [mems |-> reinforce_memory(mems, mod.id, DefaultReinforce, t).mems, seq |-> seq,
          saved |-> <<[action |-> "reinforced", id |-> mod.id]>>, failed |-> <<>>]
    ELSE [mems |-> mems, seq |-> seq, saved |-> <<>>, failed |-> <<>>]

\* the body of the loop of _save_insights_to_memory for one modification: the table
\* after it, and what it appends to saved_insights and failed_saves
apply_modification(mems, seq, mod, t) ==
    IF mod.action = "create" /\ mod.memory # ""
    THEN LET r == add_memory(mems, seq, mod.memory, DefaultConfidence, t)
         IN  [mems |-> r.mems, seq |-> r.seq,
              saved |-> <<[action |-> "created", id |-> r.value]>>, failed |-> <<>>]
    ELSE IF mod.action = "reinforce" /\ mod.id # 0
    THEN LET r == reinforce_memory(mems, mod.id, DefaultReinforce, t)
         IN  IF r.value = "True"
             THEN [mems |-> r.mems, seq |-> seq,
                   saved |-> <<[action |-> "reinforced", id |-> mod.id]>>,
                   failed |-> <<>>]
             ELSE [mems |-> r.mems, seq |-> seq, saved |-> <<>>,
                   failed |-> <<[action |-> mod.action, id |-> mod.id]>>]
    ELSE IF mod.action = "weaken" /\ mod.id # 0
    THEN LET r == weaken_memory(mems, mod.id, DefaultWeaken, DefaultCleanup, t)
         IN  IF r.value = "deleted"
             THEN [mems |-> r.mems, seq |-> seq,
                   saved |-> <<[action |-> "deleted", id |-> mod.id]>>, failed |-> <<>>]
             ELSE IF r.value = "True"
             THEN [mems |-> r.mems, seq |-> seq,
                   saved |-> <<[action |-> "weakened", id |-> mod.id]>>, failed |-> <<>>]
             ELSE [mems |-> r.mems, seq |-> seq, saved |-> <<>>,
                   failed |-> <<[action |-> mod.action, id |-> mod.id]>>]
    ELSE IF mod.action = "update_content" /\ mod.id # 0 /\ mod.memory # ""
    THEN LET r == update_memory_content(mems, mod.id, mod.memory, t)
         IN  IF r.value = "True"
             THEN [mems |-> r.mems, seq |-> seq,
                   saved |-> <<[action |-> "updated", id |-> mod.id]>>, failed |-> <<>>]
             ELSE [mems |-> r.mems, seq |-> seq, saved |-> <<>>,
                   failed |-> <<[action |-> mod.action, id |-> mod.id]>>]
    ELSE [mems |-> mems, seq |-> seq, saved |-> <<>>, failed |-> <<>>]

\* a task running recognize_patterns_async(trigger_context):
\*   pc        created   scheduled by create_task, not started
\*             awaiting  suspended in analyze_patterns, the external call in flight
\*             applying  in the loop of _save_insights_to_memory, before mods[idx]
\*             cleaning  the loop is over, cleanup_low_confidence_memories is next
\*             done      the coroutine returned `result`
\*             cancelled CancelledError left the coroutine
\*   analysis  what analyze_patterns returned: pending, ok, or the failure
\*   cleaned   memories_cleaned_up, -1 while the sweep has not run
\*   cb        the done callback cleanup_task has run
\* Nothing reads the result of a task: once its done callback has run the task
\* object is released, and the model forgets what it held.
\* The constructors of the extractor and of the analyzer call
\* MemoryDatabase.get_instance(), which memory_database.py does not define; the model
\* takes it to return a MemoryDatabase on the default path, as MemoryDatabase() does.
NewTask(tool) ==
    [pc |-> "created", target_tool |-> tool, total_executions |-> -1,
     analysis |-> "pending", mods |-> <<>>, idx |-> 1, saved |-> <<>>, failed |-> <<>>,
     result |-> "none", error |-> "", cleaned |-> -1, cb |-> FALSE]

Released == [NewTask("") EXCEPT !.pc = "released", !.cb = TRUE]

Finished(task) == task.pc \in {"done", "cancelled", "released"}

\* if total_executions < 3
InsufficientData_extractor(total_executions) == total_executions < 2

InsufficientData(total_executions) == total_executions < MinRelevantExecutions

\* _should_skip_analysis: throttling is disabled
_should_skip_analysis == FALSE

\* a cycle without the outer try: what the extractor raises leaves the coroutine
TaskStart_raises(t) ==
    /\ running = 0
    /\ t \in DOMAIN tasks
    /\ tasks[t].pc = "created"
    /\ LET raw == generate_similar_tool_summary(tool_executions, tasks[t].target_tool,
                                                DaysToAnalyze, now)
       IN  tasks' = [tasks EXCEPT ![t] =
              IF raw.raised
              THEN [@ EXCEPT !.pc = "raised", !.error = "exception"]
              ELSE IF InsufficientData(raw.total_executions)
              THEN [@ EXCEPT !.pc = "done", !.result = "skipped",
                             !.total_executions = raw.total_executions]
              ELSE [@ EXCEPT !.pc = "awaiting",
                             !.total_executions = raw.total_executions]]
    /\ UNCHANGED <<store_vars, active, waiter, running>>

\* the task's first run: gating and extraction, up to the await of the analyzer
TaskStart(t) ==
    /\ running = 0
    /\ t \in DOMAIN tasks
    /\ tasks[t].pc = "created"
    /\ LET raw == generate_similar_tool_summary(tool_executions, tasks[t].target_tool,
                                                DaysToAnalyze, now)
       IN  tasks' = [tasks EXCEPT ![t] =
              IF _should_skip_analysis
              THEN [@ EXCEPT !.pc = "done", !.result = "skipped"]
              ELSE IF raw.raised
              THEN [@ EXCEPT !.pc = "done", !.result = "failed", !.error = "exception"]
              ELSE IF InsufficientData(raw.total_executions)
              THEN [@ EXCEPT !.pc = "done", !.result = "skipped",
                             !.total_executions = raw.total_executions]
              ELSE [@ EXCEPT !.pc = "awaiting",
                             !.total_executions = raw.total_executions]]
    /\ UNCHANGED <<store_vars, active, waiter, running>>

AnalysisFailures == {"error", "timeout", "empty", "unparsable"}

\* analyze_patterns returned {"success": False, "error": ...}: the cycle returns it
AnalysisFails_sweeps(t, failure) ==
    /\ running = 0
    /\ t \in DOMAIN tasks
    /\ tasks[t].pc = "awaiting"
    /\ tasks' = [tasks EXCEPT ![t] = [@ EXCEPT !.pc = "cleaning", !.analysis = failure]]
    /\ running' = t
    /\ UNCHANGED <<store_vars, active, waiter>>

AnalysisFails(t, failure) ==
    /\ running = 0
    /\ t \in DOMAIN tasks
    /\ tasks[t].pc = "awaiting"
    /\ tasks' = [tasks EXCEPT ![t] =
                    [@ EXCEPT !.pc = "done", !.analysis = failure,
                              !.result = "failed", !.error = failure]]
    /\ UNCHANGED <<store_vars, active, waiter, running>>

\* a cycle that sweeps before it applies the modifications
AnalysisSucceeds_sweeps_first(t, mods) ==
    /\ running = 0
    /\ t \in DOMAIN tasks
    /\ tasks[t].pc = "awaiting"
    /\ tasks' = [tasks EXCEPT ![t] =
                    [@ EXCEPT !.pc = "cleaning", !.analysis = "ok", !.mods = mods]]
    /\ running' = t
    /\ UNCHANGED <<store_vars, active, waiter>>

\* analyze_patterns returned the parsed memory_modifications: the task goes on,
\* without another await, into _save_insights_to_memory
AnalysisSucceeds(t, mods) ==
    /\ running = 0
    /\ t \in DOMAIN tasks
    /\ tasks[t].pc = "awaiting"
    /\ tasks' = [tasks EXCEPT ![t] =
                    [@ EXCEPT !.pc = IF mods = <<>> THEN "cleaning" ELSE "applying",
                              !.analysis = "ok", !.mods = mods]]
    /\ running' = t
    /\ UNCHANGED <<store_vars, active, waiter>>

\* a loop that lets the first failing modification leave the batch
ApplyStep_aborts(t) ==
    /\ running = t
    /\ t \in DOMAIN tasks
    /\ tasks[t].pc = "applying"
    /\ LET r == apply_modification(memories, mem_seq, tasks[t].mods[tasks[t].idx], now)
       IN  /\ memories' = r.mems
           /\ mem_seq' = r.seq
           /\ tasks' = [tasks EXCEPT ![t] =
                  IF r.failed # <<>>
                  THEN [@ EXCEPT !.pc = "done", !.result = "failed",
                                 !.error = "exception", !.failed = @ \o r.failed]
                  ELSE [@ EXCEPT !.idx = @ + 1,
                                 !.saved = @ \o r.saved,
                                 !.pc = IF tasks[t].idx = Len(tasks[t].mods)
                                        THEN "cleaning" ELSE "applying"]]
           /\ running' = IF r.failed # <<>> THEN 0 ELSE running
    /\ UNCHANGED <<tool_executions, exec_seq, now, ret, budget, active, waiter>>

\* a loop that gives the event loop a turn after every modification
ApplyStep_yields(t) ==
    /\ running \in {0, t}
    /\ t \in DOMAIN tasks
    /\ tasks[t].pc = "applying"
    /\ LET r == apply_modification(memories, mem_seq, tasks[t].mods[tasks[t].idx], now)
       IN  /\ memories' = r.mems
           /\ mem_seq' = r.seq
           /\ tasks' = [tasks EXCEPT ![t] =
                  [@ EXCEPT !.idx = @ + 1,
                            !.saved = @ \o r.saved,
                            !.failed = @ \o r.failed,
                            !.pc = IF tasks[t].idx = Len(tasks[t].mods)
                                   THEN "cleaning" ELSE "applying"]]
           /\ running' = IF tasks[t].idx = Len(tasks[t].mods) THEN t ELSE 0
    /\ UNCHANGED <<tool_executions, exec_seq, now, ret, budget, active, waiter>>

\* one iteration of the loop of _save_insights_to_memory
ApplyStep(t) ==
    /\ running = t
    /\ t \in DOMAIN tasks
    /\ tasks[t].pc = "applying"
    /\ LET r == apply_modification(memories, mem_seq, tasks[t].mods[tasks[t].idx], now)
       IN  /\ memories' = r.mems
           /\ mem_seq' = r.seq
           /\ tasks' = [tasks EXCEPT ![t] =
                  [@ EXCEPT !.idx = @ + 1,
                            !.saved = @ \o r.saved,
                            !.failed = @ \o r.failed,
                            !.pc = IF tasks[t].idx = Len(tasks[t].mods)
                                   THEN "cleaning" ELSE "applying"]]
    /\ UNCHANGED <<tool_executions, exec_seq, now, ret, budget, active, waiter, running>>

\* cleanup_low_confidence_memories(0.1), then the success result
CleanStep(t) ==
    /\ running = t
    /\ t \in DOMAIN tasks
    /\ tasks[t].pc = "cleaning"
    /\ LET r == cleanup_low_confidence_memories(memories, CycleCleanupThreshold)
       IN  /\ memories' = r.mems
           /\ tasks' = [tasks EXCEPT ![t] =
                  [@ EXCEPT !.pc = "done", !.result = "success", !.cleaned = r.value]]
    /\ running' = 0
    /\ UNCHANGED <<mem_seq, tool_executions, exec_seq, now, ret, budget, active, waiter>>

-----------------------------------------------------------------------------
(* tools/callbacks: after_tool_callback and await_pending_analysis         *)

callback_memory_tools ==
    {"search_memory", "save_memory", "get_all_memories", "modify_memory", "delete_memory"}

MaxTasks == 2      \* tool executions reported to after_tool_callback

CallbackTools == {"play_song", "read_file"}

\* after_tool_callback for a tool that is no memory tool, with a PatternRecognizer
\* that can be constructed: the execution is logged, then the task is created and
\* added to _active_analysis_tasks.  Spec studies the cycles and takes the
\* constructors to succeed; SpecCallback has them as the source has them.
AfterToolCallback(tool, args) ==
    /\ running = 0
    /\ tool \notin callback_memory_tools
    /\ Len(tasks) < MaxTasks
    /\ LET r == log_tool_execution(tool_executions, exec_seq, tool, args, now)
       IN  /\ tool_executions' = r.log
           /\ exec_seq' = r.seq
    /\ tasks' = Append(tasks, NewTask(tool))
    /\ active' = active \cup {Len(tasks) + 1}
    /\ UNCHANGED <<memories, mem_seq, now, ret, budget, waiter, running>>

\* a done callback that leaves the task in the set
TaskDoneCallback_keeps(t) ==
    /\ running = 0
    /\ t \in DOMAIN tasks
    /\ Finished(tasks[t])
    /\ ~tasks[t].cb
    /\ tasks' = [tasks EXCEPT ![t] = Released]
    /\ UNCHANGED <<store_vars, active, waiter, running>>

\* cleanup_task, the task's done callback
TaskDoneCallback(t) ==
    /\ running = 0
    /\ t \in DOMAIN tasks
    /\ Finished(tasks[t])
    /\ ~tasks[t].cb
    /\ tasks' = [tasks EXCEPT ![t] = Released]
    /\ active' = active \ {t}
    /\ UNCHANGED <<store_vars, waiter, running>>

\* await_pending_analysis with a non-empty set: gather(*_active_analysis_tasks)
AwaitBegin ==
    /\ running = 0
    /\ waiter.pc = "idle"
    /\ active # {}
    /\ waiter' = [pc |-> "waiting", gathered |-> active]
    /\ UNCHANGED <<store_vars, tasks, active, running>>

\* every gathered task is done and its callbacks have run: finally, clear()
AwaitComplete ==
    /\ running = 0
    /\ waiter.pc = "waiting"
    /\ \A t \in waiter.gathered : Finished(tasks[t]) /\ tasks[t].cb
    /\ active' = {}
    /\ waiter' = NoWaiter
    /\ UNCHANGED <<store_vars, tasks, running>>

\* the 20 s are over: wait_for cancels the gather, which cancels its unfinished
\* tasks where they are suspended; their callbacks run; finally, clear()
AwaitTimeout ==
    /\ running = 0
    /\ waiter.pc = "waiting"
    /\ \E t \in waiter.gathered : ~Finished(tasks[t])
    /\ tasks' = [t \in DOMAIN tasks |->
                    IF t \in waiter.gathered /\ ~Finished(tasks[t])
                    THEN [tasks[t] EXCEPT !.pc = "cancelled", !.result = "cancelled",
                                          !.cb = TRUE]
                    ELSE IF t \in waiter.gathered
                    THEN Released
                    ELSE tasks[t]]
    /\ active' = {}
    /\ waiter' = NoWaiter
    /\ UNCHANGED <<store_vars, running>>

-----------------------------------------------------------------------------
(* The engine: callbacks, cycles, direct callers, shutdown                 *)

\* the lists the analyzer answers with
ModLists ==
    {<<>>,
     <<Create("likes EDM")>>,
     <<Weaken(1), Reinforce(1), Create("likes jazz")>>,
     <<Reinforce(3), Update(1, "likes jazz"), Weaken(0)>>}

\* the database the process opens: one execution logged by an earlier run
SeedLog == <<Exec(1, "play_song", EmptyArgs, 0)>>

SeedConfidences == {DefaultConfidence, 500}

\* The assistant calls the store only from the callback and the cycles.  The scripts
\* that call add_memory with a confidence of their own seed the database before the
\* first tool execution is reported.
SeedMemory(confidence) ==
    /\ running = 0
    /\ tasks = <<>>
    /\ mem_seq = 0
    /\ LET r == add_memory(memories, mem_seq, "likes EDM", confidence, now)
       IN  /\ memories' = r.mems
           /\ mem_seq' = r.seq
           /\ ret' = Ret("add_memory", r.value, confidence, 0, -1, "id")
    /\ UNCHANGED <<tool_executions, exec_seq, now, budget, tasks, active, waiter, running>>

Init ==
    /\ memories = EmptyTable
    /\ mem_seq = 0
    /\ tool_executions = SeedLog
    /\ exec_seq = Len(tool_executions)
    /\ now = 0
    /\ ret = NoRet
    /\ budget = 0
    /\ tasks = <<>>
    /\ active = {}
    /\ waiter = NoWaiter
    /\ running = 0

Next ==
    \/ \E tool \in CallbackTools : AfterToolCallback(tool, EmptyArgs)
    \/ \E t \in 1..MaxTasks : TaskStart(t)
    \/ \E t \in 1..MaxTasks, failure \in AnalysisFailures : AnalysisFails(t, failure)
    \/ \E t \in 1..MaxTasks, mods \in ModLists : AnalysisSucceeds(t, mods)
    \/ \E t \in 1..MaxTasks : ApplyStep(t)
    \/ \E t \in 1..MaxTasks : CleanStep(t)
    \/ \E t \in 1..MaxTasks : TaskDoneCallback(t)
    \/ AwaitBegin
    \/ AwaitComplete
    \/ AwaitTimeout
    \/ \E confidence \in SeedConfidences : SeedMemory(confidence)

Spec == Init /\ [][Next]_vars

-----------------------------------------------------------------------------
(* after_tool_callback with the constructors as the source has them        *)

\* the attributes class MemoryDatabase defines
MemoryDatabase_attributes ==
    {"__init__", "_init_database", "add_memory", "get_memories", "reinforce_memory",
     "weaken_memory", "search_similar_memories", "cleanup_low_confidence_memories",
     "log_tool_execution", "get_tool_executions", "update_memory_content",
     "get_memory_stats", "clear_all_data"}

\* AlgorithmicPatternExtractor(): self.memory_db = MemoryDatabase.get_instance()
AlgorithmicPatternExtractor_init ==
    IF "get_instance" \in MemoryDatabase_attributes THEN "ok" ELSE "AttributeError"

\* PatternRecognizer(): the extractor is the first component it builds
PatternRecognizer_init == AlgorithmicPatternExtractor_init

CallbackArgs == {EmptyArgs, Dict([query |-> StrValue(<<"EDM">>)])}

\* what after_tool_callback hands back to the framework for a tool: always None
CallbackRet(tool) == [op |-> "after_tool_callback", tool |-> tool, value |-> "None"]

\* a callback without the memory_tools test: every tool is logged
after_tool_callback_logs_all(tool, args) ==
    /\ running = 0
    /\ exec_seq <= MaxCalls
    /\ LET r == log_tool_execution(tool_executions, exec_seq, tool, args, now)
       IN  /\ tool_executions' = r.log
           /\ exec_seq' = r.seq
    /\ ret' = CallbackRet(tool)
    /\ UNCHANGED <<memories, mem_seq, now, budget, tasks, active, waiter, running>>

\* after_tool_callback(tool, args, tool_context, tool_response): memory tools are
\* skipped; the execution is logged; PatternRecognizer() is constructed inside the
\* inner try, and when it raises the error is printed and no task is created
after_tool_callback(tool, args) ==
    /\ running = 0
    /\ exec_seq <= MaxCalls
    /\ ret' = CallbackRet(tool)
    /\ IF tool \in callback_memory_tools
       THEN UNCHANGED <<memories, mem_seq, tool_executions, exec_seq, now, budget,
                        tasks, active, waiter, running>>
       ELSE /\ LET r == log_tool_execution(tool_executions, exec_seq, tool, args, now)
               IN  /\ tool_executions' = r.log
                   /\ exec_seq' = r.seq
            /\ IF PatternRecognizer_init = "ok"
               THEN /\ tasks' = Append(tasks, NewTask(tool))
                    /\ active' = active \cup {Len(tasks) + 1}
               ELSE UNCHANGED <<tasks, active>>
            /\ UNCHANGED <<memories, mem_seq, now, budget, waiter, running>>

NextCallback ==
    \E tool \in CallbackTools \cup callback_memory_tools, args \in CallbackArgs :
        after_tool_callback(tool, args)

SpecCallback == Init /\ [][NextCallback]_vars

-----------------------------------------------------------------------------
(* recognize_patterns_async awaited by its caller, one cycle after another *)

\* the scripts await recognize_patterns_async(trigger_context) themselves, on the
\* database as they find it; trigger context "" is None
CycleTriggers == {"", "play_song", "read_file"}

CycleLog ==
    <<Exec(1, "play_song", EmptyArgs, 0), Exec(2, "play_song", EmptyArgs, 0),
      Exec(3, "play_song", EmptyArgs, 0)>>

\* no executions; three of play_song; the three and a row without arguments
CycleSeedLogs ==
    {<<>>, CycleLog, <<Exec(1, "read_file", NullArgs, 0)>> \o
                     [k \in 1..3 |-> [CycleLog[k] EXCEPT !.id = k + 1]]}

\* no memories; one at the default confidence; one below the cleanup threshold
CycleSeedMemories ==
    {EmptyTable} \cup {(1 :> Row("likes EDM", c, 0)) : c \in SeedConfidences}

CycleModLists ==
    ModLists \cup {<<Create("likes EDM"), Create("likes jazz")>>}

\* await recognizer.recognize_patterns_async(trigger_context): the coroutine object
AwaitCycle(tool) ==
    /\ running = 0
    /\ Len(tasks) < MaxTasks
    /\ \A t \in DOMAIN tasks : Finished(tasks[t])
    /\ tasks' = Append(tasks, NewTask(tool))
    /\ UNCHANGED <<store_vars, active, waiter, running>>

InitCycle ==
    /\ memories \in CycleSeedMemories
    /\ mem_seq = Cardinality(DOMAIN memories)
    /\ tool_executions \in CycleSeedLogs
    /\ exec_seq = Len(tool_executions)
    /\ now = 0
    /\ ret = NoRet
    /\ budget = 0
    /\ tasks = <<>>
    /\ active = {}
    /\ waiter = NoWaiter
    /\ running = 0

NextCycle ==
    \/ \E tool \in CycleTriggers : AwaitCycle(tool)
    \/ \E t \in 1..MaxTasks : TaskStart(t)
    \/ \E t \in 1..MaxTasks, failure \in AnalysisFailures : AnalysisFails(t, failure)
    \/ \E t \in 1..MaxTasks, mods \in CycleModLists : AnalysisSucceeds(t, mods)
    \/ \E t \in 1..MaxTasks : ApplyStep(t)
    \/ \E t \in 1..MaxTasks : CleanStep(t)

SpecCycle == InitCycle /\ [][NextCycle]_vars

-----------------------------------------------------------------------------
(* Concurrent callers of reinforce_memory and weaken_memory                *)

\* Each call opens a connection of its own, SELECTs the confidence, computes the new
\* value in Python and then UPDATEs or DELETEs.  Callers in different threads or
\* processes share the database file; sqlite3 opens the write transaction at the
\* UPDATE, so another caller's statements can run between the two.  In this
\* specification `tasks` holds the callers, each at its position in the function.
MaxCallers == 2

RaceTable == (1 :> Row("likes EDM", DefaultConfidence, 0))

RaceCalls ==
    {[op |-> "reinforce_memory", factor |-> DefaultReinforce, threshold |-> 0],
     [op |-> "weaken_memory", factor |-> DefaultWeaken, threshold |-> DefaultCleanup],
     [op |-> "weaken_memory", factor |-> 5000, threshold |-> 3000]}

Caller(call, memory_id) ==
    [pc |-> "select", op |-> call.op, id |-> memory_id, factor |-> call.factor,
     threshold |-> call.threshold, current_confidence |-> -1, value |-> "None"]

\* a caller enters reinforce_memory or weaken_memory
CallBegin(call, memory_id) ==
    /\ Len(tasks) < MaxCallers
    /\ tasks' = Append(tasks, Caller(call, memory_id))
    /\ UNCHANGED <<store_vars, active, waiter, running>>

\* SELECT confidence FROM memories WHERE id = ?, fetchone()
SelectStep(c) ==
    /\ c \in DOMAIN tasks
    /\ tasks[c].pc = "select"
    /\ tasks' = [tasks EXCEPT ![c] =
                    IF tasks[c].id \in DOMAIN memories
                    THEN [@ EXCEPT !.pc = "write",
                                   !.current_confidence = memories[tasks[c].id].confidence]
                    ELSE [@ EXCEPT !.pc = "done", !.value = "False"]]
    /\ UNCHANGED <<store_vars, active, waiter, running>>

\* UPDATE memories SET confidence = ? WHERE id = ? (no row: nothing changes), or
\* DELETE FROM memories WHERE id = ?; commit; return
WriteStep(c) ==
    /\ c \in DOMAIN tasks
    /\ tasks[c].pc = "write"
    /\ LET caller == tasks[c]
           new_confidence ==
               IF caller.op = "reinforce_memory"
               THEN ReinforcedConfidence(caller.current_confidence, caller.factor)
               ELSE WeakenedConfidence(caller.current_confidence, caller.factor)
           delete == caller.op = "weaken_memory" /\ new_confidence < caller.threshold
       IN  /\ memories' =
                 IF delete
                 THEN [i \in DOMAIN memories \ {caller.id} |-> memories[i]]
                 ELSE [i \in DOMAIN memories |->
                          IF i = caller.id
                          THEN [memories[i] EXCEPT !.confidence = new_confidence,
                                                   !.last_updated = now]
                          ELSE memories[i]]
           /\ tasks' = [tasks EXCEPT ![c] =
                           [@ EXCEPT !.pc = "done",
                                     !.value = IF delete THEN "deleted" ELSE "True"]]
    /\ UNCHANGED <<mem_seq, tool_executions, exec_seq, now, ret, budget,
                   active, waiter, running>>

InitRace ==
    /\ memories = RaceTable
    /\ mem_seq = 1
    /\ tool_executions = <<>>
    /\ exec_seq = 0
    /\ now = 0
    /\ ret = NoRet
    /\ budget = 0
    /\ tasks = <<>>
    /\ active = {}
    /\ waiter = NoWaiter
    /\ running = 0

NextRace ==
    \/ \E call \in RaceCalls : CallBegin(call, 1)
    \/ \E c \in 1..MaxCallers : SelectStep(c)
    \/ \E c \in 1..MaxCallers : WriteStep(c)

SpecRace == InitRace /\ [][NextRace]_vars

\* the table after one call made on its own
SerialCall(mems, caller, t) ==
    IF caller.op = "reinforce_memory"
    THEN reinforce_memory(mems, caller.id, caller.factor, t).mems
    ELSE weaken_memory(mems, caller.id, caller.factor, caller.threshold, t).mems

RECURSIVE SerialOutcomes(_, _, _, _)
\* the tables the calls of `pending` can leave when made one after the other
SerialOutcomes(mems, callers, pending, t) ==
    IF pending = {} THEN {mems}
    ELSE UNION {SerialOutcomes(SerialCall(mems, callers[c], t), callers, pending \ {c}, t) :
                   c \in pending}

-----------------------------------------------------------------------------
(* The relevance filter over logs of every length                          *)

MaxLog   == 21     \* executions in the log
MaxOther == 1      \* of them, executions logged for another tool than play_song

\* the clock at which the filter is called: later than the lookback window and the
\* proximity window after time 0
FilterNow == DaysToAnalyze * MinutesPerDay + ProximityMinutes + 1

\* what the log holds from earlier runs: nothing; a play_song older than the
\* lookback window; a related tool more than 2 hours old; a row without arguments;
\* a read_file and a play_song whose arguments share the word "EDM" and no other
FilterSeeds ==
    {<<>>,
     <<Exec(1, "play_song", EmptyArgs, 0)>>,
     <<Exec(1, "pause_music", EmptyArgs, FilterNow - ProximityMinutes - 1)>>,
     <<Exec(1, "read_file", NullArgs, FilterNow)>>,
     <<Exec(1, "read_file", Dict([path |-> StrValue(<<"EDM", "notes">>)]), FilterNow),
       Exec(2, "play_song", Dict([query |-> StrValue(<<"The", "EDM", "mix">>)]),
            FilterNow)>>}

FilterTools == {"play_song", "next_song"}

Others(log) == {k \in 1..Len(log) : log[k].tool # "play_song"}

\* log_tool_execution(tool_name, tool_arguments) by a direct caller
LogExecution(tool) ==
    /\ Len(tool_executions) < MaxLog
    /\ tool # "play_song" => Cardinality(Others(tool_executions)) < MaxOther
    /\ LET r == log_tool_execution(tool_executions, exec_seq, tool, EmptyArgs, now)
       IN  /\ tool_executions' = r.log
           /\ exec_seq' = r.seq
           /\ ret' = Ret("log_tool_execution", r.value, 0, 0, -1, "id")
    /\ UNCHANGED <<memories, mem_seq, now, budget, tasks, active, waiter, running>>

\* _filter_relevant_executions(get_tool_executions(limit=1000), target_tool, 30)
FilterRelevantExecutions(target_tool) ==
    /\ LET executions == get_tool_executions(tool_executions, "", ExecutionLimit)
       IN  ret' = IF FilterRaises(executions, target_tool, DaysToAnalyze, now)
                  THEN [op |-> "_filter_relevant_executions", target_tool |-> target_tool,
                        raised |-> TRUE, value |-> <<>>]
                  ELSE [op |-> "_filter_relevant_executions", target_tool |-> target_tool,
                        raised |-> FALSE,
                        value |-> _filter_relevant_executions(executions, target_tool,
                                                              DaysToAnalyze, now)]
    /\ UNCHANGED <<memories, mem_seq, tool_executions, exec_seq, now, budget,
                   tasks, active, waiter, running>>

InitFilter ==
    /\ memories = EmptyTable
    /\ mem_seq = 0
    /\ tool_executions \in FilterSeeds
    /\ exec_seq = Len(tool_executions)
    /\ now = FilterNow
    /\ ret = NoRet
    /\ budget = 0
    /\ tasks = <<>>
    /\ active = {}
    /\ waiter = NoWaiter
    /\ running = 0

NextFilter ==
    \/ \E tool \in FilterTools : LogExecution(tool)
    \/ \E target_tool \in FilterTools : FilterRelevantExecutions(target_tool)

SpecFilter == InitFilter /\ [][NextFilter]_vars

-----------------------------------------------------------------------------
(* Claims about the store                                                  *)

InUnit(c) == 0 <= c /\ c <= SCALE

DirectCall(op) == budget' = budget - 1 /\ ret'.op = op

\* C1: a reinforce_memory or weaken_memory call (factor in [0,1]) leaves every
\* confidence that was within [0,1] before the call within [0,1] after it, so a
\* memory created within [0,1] never leaves [0,1].
C1_ConfidenceBounds ==
    [][ (DirectCall("reinforce_memory") \/ DirectCall("weaken_memory"))
        => \A i \in DOMAIN memories' :
              (i \in DOMAIN memories /\ InUnit(memories[i].confidence))
                  => InUnit(memories'[i].confidence) ]_vars

\* a reinforce with factor 1.0 has taken a memory from inside [0,1] to exactly 1.0
C1_Witness ==
    /\ ret.op = "reinforce_memory"
    /\ ret.value = "True"
    /\ InUnit(ret.old) /\ ret.old < SCALE
    /\ ret.id \in DOMAIN memories
    /\ memories[ret.id].confidence = SCALE

\* C2: weaken_memory on an existing memory computes new = max(0, old * (1 - factor));
\* when new < threshold the row is deleted and "deleted" returned, otherwise new is
\* stored and True returned.  From 0.5 with factor 0.5 and threshold 0.1 the calls
\* give 0.25 (True), 0.125 (True), then "deleted"; a deleted id is never visible to
\* get_memories again.
C2_WeakenThenEvict ==
    [][ /\ (DirectCall("weaken_memory") /\ ret'.id \in DOMAIN memories)
           => LET id  == ret'.id
                  old == memories[id].confidence
                  new == Max(0, RoundDiv(old * (SCALE - ret'.factor), SCALE))
              IN  /\ IF new < ret'.threshold
                     THEN ret'.value = "deleted" /\ id \notin DOMAIN memories'
                     ELSE /\ ret'.value = "True"
                          /\ id \in DOMAIN memories'
                          /\ memories'[id].confidence = new
                  /\ (ret'.factor = 5000 /\ ret'.threshold = 1000 /\ old = 5000)
                        => ret'.value = "True" /\ memories'[id].confidence = 2500
                  /\ (ret'.factor = 5000 /\ ret'.threshold = 1000 /\ old = 2500)
                        => ret'.value = "True" /\ memories'[id].confidence = 1250
                  /\ (ret'.factor = 5000 /\ ret'.threshold = 1000 /\ old = 1250)
                        => ret'.value = "deleted"
        /\ \A i \in 1..mem_seq :
              i \notin DOMAIN memories => i \notin Visible(memories') ]_vars

\* the third weakening of a memory that started at 0.5: it read 0.125 and deleted
C2_Witness ==
    /\ ret.op = "weaken_memory"
    /\ ret.factor = 5000 /\ ret.threshold = 1000
    /\ ret.old = 1250
    /\ ret.value = "deleted"
    /\ ret.id \notin Visible(memories)
    /\ budget = MaxCalls - 4

-----------------------------------------------------------------------------
(* Claims about the recognition cycle                                      *)

\* C3: when the analysis step fails (external call error, timeout, empty or
\* unparsable response) the cycle returns a failure result carrying the error and
\* applies zero mutations: no step of the cycle changes the memory table, and
\* neither the applying nor the cleaning step runs.
C3_FailedAnalysisAppliesNothing ==
    [][ \A t \in DOMAIN tasks :
          /\ (tasks[t].pc = "created" /\ tasks'[t].pc \in {"awaiting", "done"})
                => memories' = memories /\ mem_seq' = mem_seq
          /\ (tasks[t].pc = "awaiting" /\ tasks'[t].analysis \in AnalysisFailures)
                => /\ tasks'[t].pc = "done"
                   /\ tasks'[t].result = "failed"
                   /\ tasks'[t].error = tasks'[t].analysis
                   /\ tasks'[t].idx = 1
                   /\ tasks'[t].saved = <<>> /\ tasks'[t].failed = <<>>
                   /\ tasks'[t].cleaned = -1
                   /\ running' = 0
                   /\ memories' = memories /\ mem_seq' = mem_seq
          /\ (tasks[t].pc = "done" /\ tasks[t].result = "failed")
                => tasks'[t].pc \in {"done", "released"} ]_vars

\* an unparsable response failed a cycle; the memory seeded below the threshold is
\* still stored, so no sweep ran
C3_Witness ==
    \E t \in DOMAIN tasks :
        /\ tasks[t].pc = "done"
        /\ tasks[t].result = "failed"
        /\ tasks[t].error = "unparsable"
        /\ 1 \in DOMAIN memories
        /\ memories[1].confidence = 500

\* C4: a cycle whose relevance-filtered evidence for the triggering tool holds fewer
\* than 3 executions returns "skipped" without calling the analyzer and without
\* changing the store; with 3 or more it goes on to call the analyzer.
C4_SkipOnInsufficientEvidence ==
    [][ \A t \in DOMAIN tasks :
          (tasks[t].pc = "created" /\ tasks'[t].pc \notin {"created", "cancelled"})
            => LET evidence ==
                     _filter_relevant_executions(
                         get_tool_executions(tool_executions, "", ExecutionLimit),
                         tasks[t].target_tool, DaysToAnalyze, now)
               IN  IF Len(evidence) < 3
                   THEN /\ tasks'[t].pc = "done"
                        /\ tasks'[t].result = "skipped"
                        /\ tasks'[t].analysis = "pending"
                        /\ tasks'[t].total_executions = Len(evidence)
                        /\ memories' = memories /\ mem_seq' = mem_seq
                   ELSE /\ tasks'[t].pc = "awaiting"
                        /\ tasks'[t].result = "none" ]_vars

\* with 2 relevant executions the first cycle was skipped; a 3rd was logged and the
\* next cycle waits for the analyzer
C4_Witness ==
    /\ Len(tasks) = 2
    /\ tasks[1].pc = "done"
    /\ tasks[1].result = "skipped"
    /\ tasks[1].total_executions = 2
    /\ tasks[2].pc = "awaiting"
    /\ tasks[2].total_executions = 3

\* C5: in the applying step each mutation is applied on its own and in list order:
\* one that fails because its memory id does not exist is appended to the failed
\* list and changes nothing, the loop goes on to the next mutation whatever the
\* outcome, and the batch never ends the cycle with a failure.
C5_IndependentApplication ==
    [][ \A t \in DOMAIN tasks :
          (tasks[t].pc = "applying" /\ tasks'[t] # tasks[t])
            => LET task    == tasks[t]
                   after   == tasks'[t]
                   mod     == task.mods[task.idx]
                   missing == /\ mod.action \in {"reinforce", "weaken", "update_content"}
                              /\ mod.id # 0
                              /\ mod.action = "update_content" => mod.memory # ""
                              /\ mod.id \notin DOMAIN memories
               IN  /\ after.idx = task.idx + 1
                   /\ after.mods = task.mods
                   /\ after.pc = IF task.idx < Len(task.mods)
                                 THEN "applying" ELSE "cleaning"
                   /\ after.result = "none" /\ after.error = ""
                   /\ missing
                        => /\ after.failed =
                                Append(task.failed, [action |-> mod.action, id |-> mod.id])
                           /\ after.saved = task.saved
                           /\ memories' = memories
                   /\ ~missing => after.failed = task.failed
                   /\ (mod.action = "create" /\ mod.memory # "")
                        => /\ mem_seq' = mem_seq + 1
                           /\ mem_seq' \in DOMAIN memories'
                           /\ memories'[mem_seq'].memory = mod.memory
                           /\ memories'[mem_seq'].confidence = DefaultConfidence
                           /\ after.saved =
                                Append(task.saved, [action |-> "created", id |-> mem_seq'])
                   /\ (mod.action = "reinforce" /\ mod.id \in DOMAIN memories)
                        => /\ memories'[mod.id].confidence >= memories[mod.id].confidence
                           /\ after.saved =
                                Append(task.saved, [action |-> "reinforced", id |-> mod.id])
      ]_vars

\* weaken deleted memory 1, the reinforce of memory 1 that followed failed and was
\* recorded, the create after it was still applied, and the cycle succeeded
C5_Witness ==
    \E t \in DOMAIN tasks :
        /\ tasks[t].pc = "done"
        /\ tasks[t].result = "success"
        /\ tasks[t].failed = <<[action |-> "reinforce", id |-> 1]>>
        /\ Len(tasks[t].saved) = 2
        /\ tasks[t].saved[1] = [action |-> "deleted", id |-> 1]
        /\ tasks[t].saved[2].action = "created"
        /\ tasks[t].saved[2].id \in DOMAIN memories

C9_NoHalfAppliedBatch ==
    \A t \in DOMAIN tasks :
        /\ tasks[t].pc \in {"done", "cancelled"}
              => \/ tasks[t].idx = 1 /\ tasks[t].saved = <<>> /\ tasks[t].failed = <<>>
                 \/ tasks[t].idx = Len(tasks[t].mods) + 1
        /\ tasks[t].pc = "cancelled"
              => tasks[t].idx = 1 /\ tasks[t].saved = <<>> /\ tasks[t].cleaned = -1
        /\ tasks[t].analysis = "timeout"
              => /\ tasks[t].pc \in {"done", "cancelled"}
                 /\ tasks[t].pc = "done"
                      => tasks[t].result = "failed" /\ tasks[t].error = "timeout"
                 /\ tasks[t].idx = 1

\* the shutdown wait timed out and cancelled a task suspended in the analyzer, while
\* another task had gone through its whole batch of three
C9_Witness ==
    \E t, u \in DOMAIN tasks :
        /\ tasks[t].pc = "cancelled"
        /\ tasks[t].analysis = "pending"
        /\ tasks[t].total_executions = 3
        /\ tasks[u].pc = "done"
        /\ Len(tasks[u].mods) = 3
        /\ tasks[u].idx = 4

-----------------------------------------------------------------------------
(* Claims about concurrent callers and about the relevance filter          *)

\* C6 as stated: whatever the interleaving of concurrent reinforce_memory and
\* weaken_memory calls on one memory id, once they have all returned the table is
\* one that the same calls leave when made in some serial order.
C6_NoLostUpdate ==
    (\A c \in DOMAIN tasks : tasks[c].pc = "done")
        => memories \in SerialOutcomes(RaceTable, tasks, DOMAIN tasks, now)

FilterReturned ==
    /\ ret' # ret
    /\ ret'.op = "_filter_relevant_executions"
    /\ ~ret'.raised

\* the executions of the target tool that lie within the lookback window
TargetsInWindow(target_tool) ==
    {tool_executions[k] : k \in
        {j \in 1..Len(tool_executions) :
            /\ tool_executions[j].tool = target_tool
            /\ tool_executions[j].timestamp >= now - DaysToAnalyze * MinutesPerDay}}

NoDuplicates(q) == \A j, k \in 1..Len(q) : q[j] = q[k] => j = k

-----------------------------------------------------------------------------
(* Claims about the callback and the task set                              *)

C12_LogThenStartCycle ==
    [][ exec_seq' # exec_seq
          => /\ Len(tool_executions') = Len(tool_executions) + 1
             /\ Len(tasks') = Len(tasks) + 1
             /\ tasks'[Len(tasks')].target_tool =
                    tool_executions'[Len(tool_executions')].tool
             /\ tasks'[Len(tasks')].pc = "created"
             /\ Len(tasks') \in active' ]_vars

-----------------------------------------------------------------------------
(* Claims about a cycle awaited by its caller                              *)

\* C13: recognize_patterns_async lets no error escape: whatever the store holds,
\* whatever the trigger context and the analyzer's outcome, the coroutine ends by
\* returning a result that is skipped, failed with an error, or success.
C13_StructuredResult ==
    \A t \in DOMAIN tasks :
        /\ tasks[t].pc \in {"created", "awaiting", "applying", "cleaning", "done"}
        /\ tasks[t].pc = "done"
              => /\ tasks[t].result \in {"skipped", "failed", "success"}
                 /\ tasks[t].result = "failed" => tasks[t].error # ""
                 /\ tasks[t].result # "failed" => tasks[t].error = ""
        /\ tasks[t].pc # "done" => tasks[t].result = "none"

\* the extractor raised on a row without arguments and the cycle returned a failure;
\* the next cycle was awaited after it
C13_Witness ==
    /\ Len(tasks) = 2
    /\ tasks[1].pc = "done"
    /\ tasks[1].result = "failed"
    /\ tasks[1].error = "exception"
    /\ tasks[2].pc = "created"

\* C14: a successful cycle goes extract, analyze, apply every mutation, sweep at
\* 0.1, return: the store changes only in a step of a task whose analysis succeeded,
\* the sweep runs when the whole batch has been processed, memories_cleaned_up is the
\* number of rows the sweep deleted, and at the return no memory is below 0.1.
C14_StepOrder ==
    [][ /\ memories' # memories
           => \E t \in DOMAIN tasks :
                 /\ running = t
                 /\ tasks[t].pc \in {"applying", "cleaning"}
                 /\ tasks[t].analysis = "ok"
        /\ \A t \in DOMAIN tasks :
              /\ tasks[t].pc = "created" => tasks'[t].pc \in {"created", "awaiting", "done"}
              /\ tasks[t].pc = "awaiting"
                    => tasks'[t].pc \in {"awaiting", "applying", "cleaning", "done"}
              /\ tasks[t].pc = "applying" => tasks'[t].pc \in {"applying", "cleaning"}
              /\ tasks[t].pc = "cleaning" => tasks'[t].pc \in {"cleaning", "done"}
              /\ tasks'[t].pc = "applying" => tasks'[t].idx <= Len(tasks'[t].mods)
              /\ tasks'[t].pc = "cleaning" => tasks'[t].idx = Len(tasks'[t].mods) + 1
              /\ (tasks[t].pc = "cleaning" /\ tasks'[t].pc = "done")
                    => /\ tasks'[t].result = "success"
                       /\ tasks'[t].cleaned =
                              Cardinality({i \in DOMAIN memories :
                                              memories[i].confidence < 1000})
                       /\ DOMAIN memories' =
                              {i \in DOMAIN memories : ~(memories[i].confidence < 1000)}
                       /\ \A i \in DOMAIN memories' :
                             /\ memories'[i] = memories[i]
                             /\ memories'[i].confidence >= 1000 ]_vars

\* a batch of three was processed (one failed, one updated memory 1, one skipped),
\* then the sweep deleted memory 1, which was below 0.1, and the cycle returned 1
C14_Witness ==
    \E t \in DOMAIN tasks :
        /\ tasks[t].pc = "done"
        /\ tasks[t].result = "success"
        /\ tasks[t].idx = 4
        /\ tasks[t].saved = <<[action |-> "updated", id |-> 1]>>
        /\ tasks[t].failed = <<[action |-> "reinforce", id |-> 3]>>
        /\ tasks[t].cleaned = 1
        /\ 1 \notin DOMAIN memories

-----------------------------------------------------------------------------
(* get_memory_stats                                                        *)

RECURSIVE SumConfidence(_, _)
SumConfidence(mems, ids) ==
    IF ids = {} THEN 0
    ELSE LET i == CHOOSE x \in ids : TRUE
         IN  mems[i].confidence + SumConfidence(mems, ids \ {i})

\* round(x, 3)
Round3(x) == RoundDiv(x, SCALE \div 1000) * (SCALE \div 1000)

\* COUNT(*), round(AVG(confidence) or 0.0, 3), COUNT(*) WHERE confidence >= 0.7
get_memory_stats(mems) ==
    [total_memories           |-> Cardinality(DOMAIN mems),
     average_confidence       |-> IF DOMAIN mems = {} THEN 0
                                  ELSE Round3(RoundDiv(SumConfidence(mems, DOMAIN mems),
                                                       Cardinality(DOMAIN mems))),
     high_confidence_memories |-> Cardinality({i \in DOMAIN mems :
                                                  10 * mems[i].confidence >= 7 * SCALE})]

-----------------------------------------------------------------------------
(* The prompt handed to the analyzer                                       *)

\* dict.get(key, default)
DictGet(d, key, default) == IF key \in DOMAIN d THEN d[key] ELSE default

\* what generate_similar_tool_summary returns, by its keys: the recognizer hands
\* this dict to analyze_patterns unchanged
raw_patterns(target_tool) ==
    [analysis_type         |-> "similar_tool_focus",
     similar_tool_patterns |-> generate_similar_tool_summary(tool_executions, target_tool,
                                                             DaysToAnalyze, now)]

\* f"{confidence:.2f}": hundredths
Format2f(confidence) == RoundDiv(confidence, SCALE \div 100)

\* create_analysis_prompt, as the data it puts into the prompt text: the numbered
\* executions under RECENT TOOL EXECUTIONS (at most 20) and the ID / confidence /
\* text lines under CURRENTLY STORED MEMORIES; both are read from the top level of
\* analysis_data and are empty when the key is missing
create_analysis_prompt(analysis_data) ==
    LET executions      == DictGet(analysis_data, "tool_executions", <<>>)
        stored_memories == DictGet(analysis_data, "stored_memories", <<>>)
    IN  [tool_data      |-> Take(executions, MaxRelevant),
         memory_context |-> [k \in DOMAIN stored_memories |->
                                [id         |-> stored_memories[k].id,
                                 confidence |-> Format2f(stored_memories[k].confidence),
                                 memory     |-> stored_memories[k].memory]]]

-----------------------------------------------------------------------------
(* SpecLog: the execution log and the memory table under direct callers,   *)
(* recognition cycles and the whole-database reset                         *)

\* DELETE FROM memories, tool_executions and their sqlite_sequence rows
clear_all_data ==
    [mems |-> EmptyTable, mem_seq |-> 0, log |-> <<>>, exec_seq |-> 0]

ClearAllData ==
    /\ budget > 0
    /\ running = 0
    /\ memories' = clear_all_data.mems
    /\ mem_seq' = clear_all_data.mem_seq
    /\ tool_executions' = clear_all_data.log
    /\ exec_seq' = clear_all_data.exec_seq
    /\ ret' = Ret("clear_all_data", 0, 0, 0, -1, "rowcount")
    /\ budget' = budget - 1
    /\ UNCHANGED now

\* log_tool_execution(tool_name, tool_arguments, timestamp=...): timestamp -1 is
\* None, and then datetime.now() is stored
LogToolExecution(tool_name, tool_arguments, timestamp) ==
    /\ budget > 0
    /\ running = 0
    /\ LET r == log_tool_execution(tool_executions, exec_seq, tool_name, tool_arguments,
                                   IF timestamp = -1 THEN now ELSE timestamp)
       IN  /\ tool_executions' = r.log
           /\ exec_seq' = r.seq
           /\ ret' = Ret("log_tool_execution", r.value, timestamp, 0, -1, "id")
    /\ budget' = budget - 1
    /\ UNCHANGED <<memories, mem_seq, now>>

NextLog ==
    \/ /\ \/ \E timestamp \in {-1, 0} : LogToolExecution("play_song", EmptyArgs, timestamp)
          \/ ClearAllData
          \/ running = 0 /\ AddMemory("likes EDM", DefaultCleanup)
          \/ running = 0 /\ WeakenMemory(1, DefaultWeaken, DefaultCleanup)
          \/ running = 0 /\ Tick(1)
       /\ UNCHANGED cycle_vars
    \/ AwaitCycle("play_song")
    \/ \E t \in 1..MaxTasks : TaskStart(t)
    \/ \E t \in 1..MaxTasks : AnalysisFails(t, "error")
    \/ \E t \in 1..MaxTasks : AnalysisSucceeds(t, <<Create("likes jazz"), Weaken(1)>>)
    \/ \E t \in 1..MaxTasks : ApplyStep(t)
    \/ \E t \in 1..MaxTasks : CleanStep(t)

SpecLog == InitStore /\ [][NextLog]_vars

-----------------------------------------------------------------------------
(* SpecReinforce: reinforce_memory called repeatedly on a memory that      *)
(* holds any representable confidence in [0, 1], as add_memory(text, c)    *)
(* leaves it.  A confidence is a multiple of 1/SCALE here and a double in  *)
(* the program; in both the increment factor * (1.0 - current) is rounded  *)
(* to the precision of the sum, and it is rounded away once 1.0 - current  *)
(* is a few units of that precision (1.0 - 4 * 2^-53 for a double and      *)
(* factor 0.1).                                                            *)

ReinforceSeeds == 0..SCALE

\* factor = 0.1 (the default), 1.0 and 2.0
AnyFactors == ReinforceFactors \cup {2 * SCALE}

InitReinforce ==
    /\ \E c \in ReinforceSeeds : memories = (1 :> Row("likes EDM", c, 0))
    /\ mem_seq = 1
    /\ tool_executions = <<>>
    /\ exec_seq = 0
    /\ now = 0
    /\ ret = NoRet
    /\ budget = MaxCalls
    /\ tasks = <<>>
    /\ active = {}
    /\ waiter = NoWaiter
    /\ running = 0

NextReinforce ==
    \E memory_id \in MemoryIds, factor \in AnyFactors :
        ReinforceMemory(memory_id, factor) /\ UNCHANGED cycle_vars

SpecReinforce == InitReinforce /\ [][NextReinforce]_vars

-----------------------------------------------------------------------------
(* More claims about the store                                             *)

\* C15: reinforce_memory, weaken_memory and update_memory_content called with an id
\* that is not in the store return False and leave every stored memory as it was.
C15_UnknownIdIsNoOp ==
    [][ ( /\ \/ DirectCall("reinforce_memory")
             \/ DirectCall("weaken_memory")
             \/ DirectCall("update_memory_content")
          /\ ret'.id \notin DOMAIN memories )
        => /\ ret'.value = "False"
           /\ memories' = memories
           /\ mem_seq' = mem_seq ]_vars

\* update_memory_content on an id the store has handed out and deleted again
\* returned False while another memory is stored
C15_Witness ==
    /\ ret.op = "update_memory_content"
    /\ ret.value = "False"
    /\ ret.id \notin DOMAIN memories
    /\ ret.id <= mem_seq
    /\ DOMAIN memories # {}

\* a reinforce_memory(memory_id, 0.1) step on a stored memory below 1.0
ReinforceDefaultBelowOne ==
    /\ DirectCall("reinforce_memory")
    /\ ret'.factor = DefaultReinforce
    /\ ret'.id \in DOMAIN memories
    /\ memories[ret'.id].confidence < SCALE

\* C16 as stated: from any confidence c with 0 <= c < 1, reinforce_memory(id, 0.1)
\* strictly increases the stored confidence and leaves it strictly below 1.0.
C16_StrictlyIncreasesBelowOne ==
    [][ ReinforceDefaultBelowOne
        => /\ memories'[ret'.id].confidence > memories[ret'.id].confidence
           /\ memories'[ret'.id].confidence < SCALE ]_vars

\* C16 as the code has it: from any confidence c with 0 <= c < 1,
\* reinforce_memory(id, 0.1) never lowers the stored confidence and leaves it
\* strictly below 1.0; it strictly increases it as long as the increment
\* 0.1 * (1.0 - c) is at least half a unit of the stored precision, and leaves
\* it unchanged once the increment is rounded away.
C16_IncreasesUntilRoundedAway ==
    [][ ReinforceDefaultBelowOne
        => LET c == memories[ret'.id].confidence
               n == memories'[ret'.id].confidence
           IN  /\ n >= c
               /\ n < SCALE
               /\ (2 * DefaultReinforce * (SCALE - c) >= SCALE) => n > c
               /\ (2 * DefaultReinforce * (SCALE - c) < SCALE) => n = c ]_vars

\* two reinforce_memory(id, 0.1) calls in a row: the first raised the confidence,
\* the second left it where it was, below 1.0
C16_Witness ==
    /\ ret.op = "reinforce_memory"
    /\ ret.factor = DefaultReinforce
    /\ ret.value = "True"
    /\ ret.old < SCALE
    /\ memories[ret.id].confidence = ret.old
    /\ budget = MaxCalls - 2

\* C17: reinforce_memory never stores a confidence above 1.0, whatever the factor
\* (0.1, 1.0 or 2.0) and whatever confidence in [0, 1] the memory had.
C17_NeverAboveOne ==
    [][ ( /\ DirectCall("reinforce_memory")
          /\ ret'.id \in DOMAIN memories )
        => /\ memories'[ret'.id].confidence <= SCALE
           /\ memories'[ret'.id].confidence >= memories[ret'.id].confidence ]_vars

\* reinforce_memory with factor 2.0 on a memory below 1.0 stored exactly 1.0
C17_Witness ==
    /\ ret.op = "reinforce_memory"
    /\ ret.factor > SCALE
    /\ ret.value = "True"
    /\ ret.old < SCALE
    /\ memories[ret.id].confidence = SCALE

\* C18: add_memory with a confidence outside [0, 1] is rejected before anything
\* is written: no memory is created and the store is unchanged.
C18_OutOfRangeRejected ==
    [][ ( /\ DirectCall("add_memory")
          /\ ret'.factor \notin 0..SCALE )
        => /\ memories' = memories
           /\ mem_seq' = mem_seq ]_vars

\* C19: when a cycle calls the analyzer, the prompt it hands over lists the
\* relevance-filtered executions of the summary and every stored memory with its id
\* and confidence (so each id a mutation can name was shown to the analysis).
C19_EvidenceShown ==
    [][ \A t \in DOMAIN tasks :
          ( /\ t <= Len(tasks')
            /\ tasks[t].pc = "created"
            /\ tasks'[t].pc = "awaiting" )
          => LET raw    == raw_patterns(tasks[t].target_tool)
                 prompt == create_analysis_prompt(raw)
             IN  /\ prompt.tool_data = raw.similar_tool_patterns.relevant
                 /\ { <<m.id, m.confidence>> : m \in Range(prompt.memory_context) }
                      = { <<i, Format2f(memories[i].confidence)>> : i \in DOMAIN memories }
      ]_vars

\* the analyzer's list holds create modifications with a text, and nothing else
OnlyCreates(mods) ==
    /\ mods # <<>>
    /\ \A j \in DOMAIN mods : mods[j].action = "create" /\ mods[j].memory # ""

\* the first cycle of a database has returned success and its list was only creates
FirstCycleCreated ==
    /\ Len(tasks) = 1
    /\ tasks[1].pc = "done"
    /\ tasks[1].result = "success"
    /\ OnlyCreates(tasks[1].mods)

\* C20 as stated: a successful cycle whose analysis proposes k create modifications
\* with text (k = 1 in particular) adds exactly k memories, with those texts and
\* confidence 0.5, changes no other memory, and raises
\* get_memory_stats().total_memories by exactly k.  (Before the first cycle
\* total_memories is the number of ids handed out, which the k creates raise by k.)
C20_CreatesAddExactly ==
    FirstCycleCreated
    => LET k == Len(tasks[1].mods)
       IN  /\ get_memory_stats(memories).total_memories = mem_seq
           /\ \A j \in 1..k :
                 /\ mem_seq - k + j \in DOMAIN memories
                 /\ memories[mem_seq - k + j].memory = tasks[1].mods[j].memory
                 /\ memories[mem_seq - k + j].confidence = DefaultConfidence
           /\ \A i \in 1..(mem_seq - k) : i \in DOMAIN memories

\* C20 as the code has it: applying a create modification with text T adds exactly
\* one memory, with text T and confidence 0.5, changes no other memory and raises
\* total_memories by exactly 1; the sweep that ends the cycle then deletes exactly
\* the memories below 0.1, so over the cycle total_memories rises by the number of
\* creates minus memories_cleaned_up, and by exactly k only when no stored memory
\* was below 0.1.
C20_CreatesAddThenSweep ==
    [][ \A t \in DOMAIN tasks :
          /\ ( /\ t <= Len(tasks')
               /\ tasks[t].pc = "applying"
               /\ tasks'[t].idx = tasks[t].idx + 1
               /\ OnlyCreates(<<tasks[t].mods[tasks[t].idx]>>) )
             => /\ mem_seq' = mem_seq + 1
                /\ DOMAIN memories' = DOMAIN memories \cup {mem_seq'}
                /\ mem_seq' \notin DOMAIN memories
                /\ memories'[mem_seq'].memory = tasks[t].mods[tasks[t].idx].memory
                /\ memories'[mem_seq'].confidence = DefaultConfidence
                /\ \A i \in DOMAIN memories : memories'[i] = memories[i]
                /\ get_memory_stats(memories').total_memories
                     = get_memory_stats(memories).total_memories + 1
          /\ ( /\ t <= Len(tasks')
               /\ tasks[t].pc = "cleaning"
               /\ tasks'[t].pc = "done"
               /\ OnlyCreates(tasks[t].mods) )
             => /\ get_memory_stats(memories').total_memories
                     = get_memory_stats(memories).total_memories - tasks'[t].cleaned
                /\ \A i \in DOMAIN memories :
                      IF memories[i].confidence < CycleCleanupThreshold
                      THEN i \notin DOMAIN memories'
                      ELSE i \in DOMAIN memories' /\ memories'[i] = memories[i]
      ]_vars

\* the first cycle created one memory and its sweep deleted the stored memory
\* that was below 0.1: total_memories is what it was before the cycle
C20_Witness ==
    /\ FirstCycleCreated
    /\ Len(tasks[1].mods) = 1
    /\ tasks[1].cleaned = 1
    /\ mem_seq = 2
    /\ DOMAIN memories = {2}
    /\ memories[2].confidence = DefaultConfidence
    /\ get_memory_stats(memories).total_memories = 1

-----------------------------------------------------------------------------
(* pattern_extractor: the analytics over the whole log                     *)

SequenceGapMinutes == 5    \* time_diff <= 300 seconds

\* an execution exactly 5 minutes after the previous one starts a new sequence
SameSequence_strict(prev, execution) ==
    execution.timestamp - prev.timestamp < SequenceGapMinutes

\* time_diff <= 300: the execution continues the sequence of the previous one
SameSequence(prev, execution) ==
    execution.timestamp - prev.timestamp <= SequenceGapMinutes

\* extract_sequence_patterns(days_back) at clock t.  A tool pair or triplet is the
\* sequence of its tool names; most_common(n) orders by count, the item counted
\* first coming first among equals.
extract_sequence_patterns(log, days_back, t) ==
    LET executions == get_tool_executions(log, "", ExecutionLimit)
        filtered   == SelectSeq(executions, LAMBDA e : InWindow(e, days_back, t))
        RECURSIVE Sorted(_)
        \* filtered_executions.sort(key=timestamp): ascending and stable
        Sorted(idx) ==
            IF idx = {} THEN <<>>
            ELSE LET first == CHOOSE k \in idx : \A j \in idx \ {k} :
                                 \/ filtered[k].timestamp < filtered[j].timestamp
                                 \/ /\ filtered[k].timestamp = filtered[j].timestamp
                                    /\ k < j
                 IN  <<filtered[first]>> \o Sorted(idx \ {first})
        sorted == Sorted(DOMAIN filtered)
        \* the positions at which the loop starts a new current_sequence
        starts == {i \in 1..Len(sorted) :
                      \/ i = 1
                      \/ ~SameSequence(sorted[i - 1], sorted[i])}
        \* the executions of the sequences that were kept (len(current_sequence) > 1)
        kept   == {i \in 1..Len(sorted) :
                      \/ i \notin starts
                      \/ i < Len(sorted) /\ i + 1 \notin starts}
        Item(i, width) == [k \in 1..width |-> sorted[i + k - 1].tool]
        \* the positions at which a pair (width 2) or triplet (width 3) is counted
        Positions(width) ==
            {i \in 1..(Len(sorted) - width + 1) : \A k \in 1..(width - 1) : i + k \notin starts}
        MostCommon(width, n) ==
            LET pos      == Positions(width)
                Count(i) == Cardinality({j \in pos : Item(j, width) = Item(i, width)})
                firsts   == {i \in pos : \A j \in pos : j < i => Item(j, width) # Item(i, width)}
                RECURSIVE Ranked(_)
                Ranked(idx) ==
                    IF idx = {} THEN <<>>
                    ELSE LET top == CHOOSE k \in idx : \A j \in idx \ {k} :
                                       \/ Count(k) > Count(j)
                                       \/ Count(k) = Count(j) /\ k < j
                         IN  <<[item |-> Item(top, width), count |-> Count(top)]>>
                                 \o Ranked(idx \ {top})
            IN  Take(Ranked(firsts), n)
        sequence_count == Cardinality(kept \cap starts)
    IN  [sequence_count          |-> sequence_count,
         common_tool_pairs       |-> MostCommon(2, 10),
         common_tool_triplets    |-> MostCommon(3, 5),
         average_sequence_length |-> IF sequence_count = 0 THEN 0
                                     ELSE RoundDiv(Cardinality(kept) * SCALE, sequence_count)]

\* timestamp.hour and the weekday of a timestamp (minutes since a midnight)
Hour(timestamp)    == (timestamp \div 60) % 24
Weekday(timestamp) == (timestamp \div MinutesPerDay) % 7

\* sorted(counts.items(), key=count, reverse=True): the keys by count, a key that
\* was inserted first coming first among equals.  s is the sequence of the keys
\* in the order in which they were counted.
RECURSIVE ByCount(_, _)
ByCount(s, idx) ==
    LET Count(k) == Cardinality({j \in DOMAIN s : s[j] = s[k]})
        firsts   == {k \in idx : \A j \in DOMAIN s : j < k => s[j] # s[k]}
    IN  IF firsts = {} THEN <<>>
        ELSE LET top == CHOOSE k \in firsts : \A j \in firsts \ {k} :
                           \/ Count(k) > Count(j)
                           \/ Count(k) = Count(j) /\ k < j
             IN  <<[key |-> s[top], count |-> Count(top)]>>
                     \o ByCount(s, {k \in idx : s[k] # s[top]})

\* the temporal analysis without its early return
extract_temporal_patterns_unguarded(log, days_back, t) ==
    LET executions == get_tool_executions(log, "", ExecutionLimit)
        filtered   == SelectSeq(executions, LAMBDA e : InWindow(e, days_back, t))
        hours      == [k \in DOMAIN filtered |-> Hour(filtered[k].timestamp)]
    IN  [message             |-> "",
         total_executions    |-> Len(filtered),
         hourly_distribution |-> ByCount(hours, DOMAIN hours),
         daily_distribution  |-> <<>>,
         peak_hours          |-> Take(ByCount(hours, DOMAIN hours), 3)]

\* extract_temporal_patterns(days_back) at clock t
extract_temporal_patterns(log, days_back, t) ==
    LET executions == get_tool_executions(log, "", ExecutionLimit)
        filtered   == SelectSeq(executions, LAMBDA e : InWindow(e, days_back, t))
        hours      == [k \in DOMAIN filtered |-> Hour(filtered[k].timestamp)]
        days       == [k \in DOMAIN filtered |-> Weekday(filtered[k].timestamp)]
    IN  IF filtered = <<>>
        THEN [message |-> "No tool executions found"]
        ELSE [message             |-> "",
              total_executions    |-> Len(filtered),
              hourly_distribution |-> ByCount(hours, DOMAIN hours),
              daily_distribution  |-> ByCount(days, DOMAIN days),
              peak_hours          |-> Take(ByCount(hours, DOMAIN hours), 3)]

\* extract_tool_usage_patterns(days_back) at clock t
extract_tool_usage_patterns(log, days_back, t) ==
    LET executions == get_tool_executions(log, "", ExecutionLimit)
        filtered   == SelectSeq(executions, LAMBDA e : InWindow(e, days_back, t))
        tools      == [k \in DOMAIN filtered |-> filtered[k].tool]
        tool_stats == ByCount(tools, DOMAIN tools)
    IN  [tool_statistics |-> tool_stats,
         most_used_tools |-> Take(tool_stats, 5)]

\* extract_behavioral_patterns(days_back) at clock t: the executions in the window
\* that have arguments, by tool
extract_behavioral_patterns(log, days_back, t) ==
    LET executions == get_tool_executions(log, "", ExecutionLimit)
        filtered   == SelectSeq(executions, LAMBDA e :
                         InWindow(e, days_back, t) /\ Truthy(e.arguments))
        tools      == [k \in DOMAIN filtered |-> filtered[k].tool]
        queries    == SelectSeq(filtered, LAMBDA e :
                         e.tool = "google_search" /\ "query" \in DOMAIN e.arguments.dict)
    IN  [total_analyzed_executions |-> Len(executions),
         tools_with_inputs         |-> Range(tools),
         search_queries            |-> IF Len(queries) <= 20 THEN queries
                                       ELSE SubSeq(queries, Len(queries) - 19, Len(queries)),
         input_sample_size         |-> ByCount(tools, DOMAIN tools)]

\* the result column as get_tool_executions hands it over: None (NULL, or a JSON
\* value that is falsy), the dict json.loads gave, or a string
\* (kind "none", "dict" or "str"; success is what its "success" key holds)
Result(kind, success) == [kind |-> kind, success |-> success]

\* the success test of extract_similar_tool_patterns (lines 250-255):
\*   result = json.loads(execution["result"]) if execution["result"] else {}
\*   is_successful = result.get("success", True)
\* json.loads of a dict raises TypeError, which is caught: is_successful = True.
\* A string is parsed; `success` is then the value its JSON object carries.
is_successful(execution) ==
    LET result == IF "result" \in DOMAIN execution THEN execution.result ELSE Result("none", "absent")
    IN  CASE result.kind = "none" -> TRUE
          [] result.kind = "dict" -> TRUE
          [] result.kind = "str"  -> result.success # "false"

\* _extract_behavioral_clusters(executions): block b is hours 3b .. 3b + 3
_extract_behavioral_clusters(executions) ==
    IF Len(executions) < 3
    THEN [message |-> "Insufficient data for behavioral clustering"]
    ELSE LET Block(e)     == Hour(e.timestamp) \div 3
             Members(b)   == {k \in DOMAIN executions : Block(executions[k]) = b}
             blocks       == {Block(executions[k]) : k \in DOMAIN executions}
             significant  == {b \in blocks : Cardinality(Members(b)) >= 3}
         IN  [message              |-> "",
              total_time_clusters  |-> Cardinality(blocks),
              significant_clusters |->
                  [b \in significant |->
                      [execution_count |-> Cardinality(Members(b)),
                       tools_used      |-> {executions[k].tool : k \in Members(b)},
                       time_range      |-> <<3 * b, 3 * b + 3>>]]]

\* extract_similar_tool_patterns(target_tool, days_back) at clock t; the relevant
\* executions are those generate_similar_tool_summary counts
extract_similar_tool_patterns(log, target_tool, days_back, t) ==
    LET summary  == generate_similar_tool_summary(log, target_tool, days_back, t)
        relevant == summary.relevant
        successful == {k \in DOMAIN relevant : is_successful(relevant[k])}
        keys     == [k \in DOMAIN relevant |->
                        <<Weekday(relevant[k].timestamp), Hour(relevant[k].timestamp)>>]
    IN  IF summary.raised THEN [raised |-> TRUE, message |-> ""]
        ELSE IF summary.target_tool = ""
        THEN [raised |-> FALSE, message |-> "No tool executions found"]
        ELSE IF Len(relevant) < 2
        THEN [raised |-> FALSE, message |-> "Insufficient relevant data",
              total_executions |-> Len(relevant)]
        ELSE [raised                |-> FALSE,
              message               |-> "",
              total_executions      |-> Len(relevant),
              relevant              |-> relevant,
              success_rate          |-> RoundDiv(Cardinality(successful) * SCALE,
                                                 Len(relevant)),
              temporal_distribution |-> ByCount(keys, DOMAIN keys),
              behavioral_clusters   |-> _extract_behavioral_clusters(relevant),
              successful_executions |-> Cardinality(successful),
              failed_executions     |-> Len(relevant) - Cardinality(successful)]

-----------------------------------------------------------------------------
(* SpecExtract: the extractor over logs that grow as time passes           *)

MaxExtract == 4     \* executions logged

\* tools A, B, C at minutes 0, 2, 4 and tool D at minute 40
SequenceExample ==
    <<Exec(1, "play_song", EmptyArgs, 0), Exec(2, "pause_music", EmptyArgs, 2),
      Exec(3, "next_song", EmptyArgs, 4), Exec(4, "read_file", EmptyArgs, 40)>>

\* what is logged next, and how many minutes after the previous execution: either
\* tool 5 minutes later, play_song 6 minutes later; play_song with a result that
\* reports a failure, as a dict or as a string; play_song a 3-hour block, a day, or
\* more than the lookback window later
ExtractInputs ==
    {[tool |-> tool, result |-> Result("none", "absent"), gap |-> SequenceGapMinutes] :
        tool \in {"play_song", "read_file"}}
    \cup {[tool |-> "play_song", result |-> Result("none", "absent"), gap |-> SequenceGapMinutes + 1]}
    \cup {[tool |-> "play_song", result |-> result, gap |-> SequenceGapMinutes] :
             result \in {Result("dict", "false"), Result("str", "false")}}
    \cup {[tool |-> "play_song", result |-> Result("none", "absent"), gap |-> gap] :
             gap \in {180, MinutesPerDay, (DaysToAnalyze + 1) * MinutesPerDay}}

\* time passes, then log_tool_execution(tool, {}, result) by a direct caller
LogLater(in) ==
    /\ Len(tool_executions) < MaxExtract
    /\ now' = now + in.gap
    /\ LET r    == log_tool_execution(tool_executions, exec_seq, in.tool, EmptyArgs, now')
           last == r.log[Len(r.log)]
       IN  /\ tool_executions' = [r.log EXCEPT ![Len(r.log)] =
                                      last @@ [result |-> in.result]]
           /\ exec_seq' = r.seq
    /\ ret' = NoRet
    /\ UNCHANGED <<memories, mem_seq, budget, tasks, active, waiter, running>>

\* generate_pattern_summary(30); the result depends on the log and the clock only,
\* so one call is followed per state of the log
GeneratePatternSummary ==
    /\ ret = NoRet
    /\ ret' = [op         |-> "generate_pattern_summary",
               temporal   |-> extract_temporal_patterns(tool_executions, DaysToAnalyze, now),
               usage      |-> extract_tool_usage_patterns(tool_executions, DaysToAnalyze, now),
               sequences  |-> extract_sequence_patterns(tool_executions, DaysToAnalyze, now),
               behavioral |-> extract_behavioral_patterns(tool_executions, DaysToAnalyze,
                                                          now)]
    /\ UNCHANGED <<memories, mem_seq, tool_executions, exec_seq, now, budget,
                   tasks, active, waiter, running>>

\* extract_similar_tool_patterns(target_tool, 30); target_tool "" is None
ExtractSimilarToolPatterns(target_tool) ==
    /\ ret = NoRet
    /\ ret' = [op          |-> "extract_similar_tool_patterns",
               target_tool |-> target_tool,
               value       |-> extract_similar_tool_patterns(tool_executions, target_tool,
                                                             DaysToAnalyze, now)]
    /\ UNCHANGED <<memories, mem_seq, tool_executions, exec_seq, now, budget,
                   tasks, active, waiter, running>>

InitExtract ==
    /\ memories = EmptyTable
    /\ mem_seq = 0
    /\ tool_executions \in {<<>>, SequenceExample}
    /\ exec_seq = Len(tool_executions)
    /\ now = IF tool_executions = <<>> THEN 0
             ELSE tool_executions[Len(tool_executions)].timestamp
    /\ ret = NoRet
    /\ budget = 0
    /\ tasks = <<>>
    /\ active = {}
    /\ waiter = NoWaiter
    /\ running = 0

NextExtract ==
    \/ \E in \in ExtractInputs : LogLater(in)
    \/ GeneratePatternSummary
    \/ \E target_tool \in {"", "play_song"} : ExtractSimilarToolPatterns(target_tool)

SpecExtract == InitExtract /\ [][NextExtract]_vars

-----------------------------------------------------------------------------
(* A caller that fills the store and reads it back with get_memories, and   *)
(* that passes factor = -1.0 to reinforce_memory and weaken_memory          *)

GetMemories(min_confidence, limit) ==
    /\ budget > 0
    /\ ret' = [op |-> "get_memories", min_confidence |-> min_confidence,
               limit |-> limit, value |-> get_memories(memories, min_confidence, limit)]
    /\ budget' = budget - 1
    /\ UNCHANGED <<memories, mem_seq, tool_executions, exec_seq, now>>

NextQuery ==
    \/ /\ \/ \E confidence \in {DefaultConfidence, 500} : AddMemory("likes EDM", confidence)
          \/ \E min_confidence \in {0, 3000}, limit \in {NoLimit, 0, 1, 2} :
                GetMemories(min_confidence, limit)
          \/ Tick(1)
          \/ \E memory_id \in DOMAIN memories :
                /\ memories[memory_id].confidence \in 0..SCALE
                /\ \/ ReinforceMemory(memory_id, -SCALE)
                   \/ WeakenMemory(memory_id, -SCALE, DefaultCleanup)
       /\ UNCHANGED cycle_vars

SpecQuery == InitStore /\ [][NextQuery]_vars

-----------------------------------------------------------------------------
(* Claims C21 .. C30                                                       *)

min_analysis_interval_minutes == 30

\* C21: a cycle requested while less than 30 minutes have passed since an analysis
\* completed leaves Gating with a "skipped" result, having extracted nothing,
\* called no analysis and changed nothing in the store.  (The whole behaviour lies
\* inside the first 30 minutes, so every completed cycle is that recent.)
C21_ThrottledCycleSkips ==
    [][ \A t \in DOMAIN tasks :
          ( /\ t <= Len(tasks')
            /\ now < min_analysis_interval_minutes
            /\ tasks[t].pc = "created"
            /\ tasks'[t].pc # "created"
            /\ \E u \in DOMAIN tasks :
                  tasks[u].pc = "done" /\ tasks[u].result = "success" )
          => /\ tasks'[t].pc = "done"
             /\ tasks'[t].result = "skipped"
             /\ tasks'[t].total_executions = tasks[t].total_executions
             /\ memories' = memories
      ]_vars

\* C22: the execution log is append-only.  log_tool_execution adds exactly one
\* record, stamped with the given timestamp or with the current time when none is
\* given, and changes no existing record; no memory operation and no step of a
\* recognition cycle changes the log; only clear_all_data removes records.
C22_LogAppendOnly ==
    [][ /\ DirectCall("log_tool_execution")
           => /\ Len(tool_executions') = Len(tool_executions) + 1
              /\ SubSeq(tool_executions', 1, Len(tool_executions)) = tool_executions
              /\ tool_executions'[Len(tool_executions')].timestamp
                   = IF ret'.factor = -1 THEN now ELSE ret'.factor
              /\ tool_executions'[Len(tool_executions')].tool = "play_song"
        /\ DirectCall("clear_all_data") => tool_executions' = <<>>
        /\ ~ (DirectCall("log_tool_execution") \/ DirectCall("clear_all_data"))
           => tool_executions' = tool_executions
      ]_vars

\* a record logged with a given timestamp earlier than the clock follows an older
\* record, a memory was deleted and a cycle has applied its modifications
C22_Witness ==
    /\ Len(tool_executions) = 3
    /\ ret.op = "log_tool_execution"
    /\ ret.factor = 0
    /\ now = 1
    /\ tool_executions[3].timestamp = 0
    /\ \E t \in DOMAIN tasks : tasks[t].pc = "done" /\ tasks[t].result = "success"

\* C23: update_memory_content(id, new_text) on a stored memory returns True and
\* replaces its text (refreshing last_updated); its confidence and every other
\* memory stay as they were.
C23_UpdateTouchesTextOnly ==
    [][ ( /\ DirectCall("update_memory_content")
          /\ ret'.id \in DOMAIN memories )
        => /\ ret'.value = "True"
           /\ mem_seq' = mem_seq
           /\ \E new_text \in Texts :
                 memories' = [memories EXCEPT ![ret'.id] =
                                 [memory       |-> new_text,
                                  confidence   |-> memories[ret'.id].confidence,
                                  last_updated |-> now]]
      ]_vars

\* memory 1 was added at 0.05 as "likes EDM" and then updated: it reads "likes jazz"
\* at 0.05, next to a second memory that still reads "likes EDM"
C23_Witness ==
    /\ ret.op = "update_memory_content"
    /\ ret.value = "True"
    /\ ret.id = 1
    /\ DOMAIN memories = {1, 2}
    /\ memories[1].memory = "likes jazz"
    /\ memories[1].confidence = 500
    /\ memories[2].memory = "likes EDM"

Windowed == SelectSeq(tool_executions, LAMBDA e : InWindow(e, DaysToAnalyze, now))

\* executions i and i + 1 of the window are at most 5 minutes apart
Adjacent(i) == Windowed[i + 1].timestamp - Windowed[i].timestamp <= 5

\* C25: sequence mining splits the executions, by time, into maximal runs whose
\* consecutive executions are at most 5 minutes apart; it counts every adjacent
\* tool pair and triplet of the runs of length >= 2 (all of them are returned while
\* there are at most 10 pairs and 5 triplets); runs of length 1 give no pair and
\* count neither as a session nor in the average length.
C25_SequenceMining ==
    ret.op = "generate_pattern_summary"
    => LET n        == Len(Windowed)
           links    == {i \in 1..(n - 1) : Adjacent(i)}
           links3   == {i \in links : i + 1 \in links}
           sessions == {i \in links : i - 1 \notin links}
           inrun    == links \cup {i + 1 : i \in links}
           Pair(i)  == <<Windowed[i].tool, Windowed[i + 1].tool>>
           Trip(i)  == <<Windowed[i].tool, Windowed[i + 1].tool, Windowed[i + 2].tool>>
           pairs    == {[item  |-> Pair(i),
                         count |-> Cardinality({j \in links : Pair(j) = Pair(i)})] :
                           i \in links}
           trips    == {[item  |-> Trip(i),
                         count |-> Cardinality({j \in links3 : Trip(j) = Trip(i)})] :
                           i \in links3}
           seq      == ret.sequences
       IN  /\ seq.sequence_count = Cardinality(sessions)
           /\ Cardinality(pairs) <= 10 => Range(seq.common_tool_pairs) = pairs
           /\ Cardinality(trips) <= 5 => Range(seq.common_tool_triplets) = trips
           /\ Len(seq.common_tool_pairs) = Cardinality(Range(seq.common_tool_pairs))
           /\ seq.average_sequence_length * Cardinality(sessions)
                = Cardinality(inrun) * SCALE

\* the example: A, B, C at minutes 0, 2, 4 and D at minute 40 give the pairs (A,B)
\* and (B,C) once each, no pair with D, one session and the average length 3
C25_Witness ==
    /\ tool_executions = SequenceExample
    /\ ret.op = "generate_pattern_summary"
    /\ ret.sequences.common_tool_pairs
         = <<[item |-> <<"play_song", "pause_music">>, count |-> 1],
             [item |-> <<"pause_music", "next_song">>, count |-> 1]>>
    /\ ret.sequences.common_tool_triplets
         = <<[item |-> <<"play_song", "pause_music", "next_song">>, count |-> 1]>>
    /\ ret.sequences.sequence_count = 1
    /\ ret.sequences.average_sequence_length = 3 * SCALE

\* C27: an execution of a tool that is neither the target tool nor in its category
\* is returned by the relevance filter only if its arguments share with the
\* arguments of the target execution a keyword longer than 3 characters that is
\* not a stop word; sharing only words of 3 characters or fewer is not enough.
C27_ForeignToolNeedsLongKeyword ==
    [][ FilterReturned
        => LET executions == get_tool_executions(tool_executions, "", ExecutionLimit)
               ti         == TargetIndex(executions, ret'.target_tool)
           IN  \A k \in 1..Len(ret'.value) :
                  LET exec == ret'.value[k]
                  IN  ( /\ exec.tool # ret'.target_tool
                        /\ exec.tool \notin _get_related_tools(ret'.target_tool) )
                      => \E w \in _extract_key_terms(exec.arguments.dict)
                                    \cap _extract_key_terms(executions[ti].arguments.dict) :
                            Len(w) > 3 /\ w \notin stop_words
      ]_vars

\* what C26 asks of a get_memories result: only stored rows that reach
\* min_confidence, each once, by confidence descending and then last_updated
\* descending, the first `length` of them
C26_Selection(length) ==
    LET rows     == ret.value
        matching == {i \in DOMAIN memories : memories[i].confidence >= ret.min_confidence}
        Ahead(i, j) ==
            \/ memories[i].confidence > memories[j].confidence
            \/ /\ memories[i].confidence = memories[j].confidence
               /\ memories[i].last_updated > memories[j].last_updated
    IN  /\ \A k \in 1..Len(rows) : rows[k] \in matching
        /\ \A k, l \in 1..Len(rows) : k < l => rows[k] # rows[l] /\ ~Ahead(rows[l], rows[k])
        /\ \A i \in matching \ {rows[k] : k \in 1..Len(rows)} :
              \A k \in 1..Len(rows) : ~Ahead(i, rows[k])
        /\ Len(rows) = IF length < Cardinality(matching) THEN length
                       ELSE Cardinality(matching)

\* C26 as stated: get_memories(min_confidence, limit) returns exactly the memories
\* with confidence >= min_confidence, by confidence descending and then
\* last_updated descending, cut to the first limit entries whenever a limit is
\* given, and the empty list when nothing matches.
C26_LimitGivenTruncates ==
    ret.op = "get_memories"
    => C26_Selection(IF ret.limit # NoLimit THEN ret.limit ELSE Cardinality(DOMAIN memories))

\* C26 amended: the same selection and order, cut to the first limit entries when
\* the limit is at least 1; without a limit, and with a limit of 0, every
\* matching memory is returned.
C26_PositiveLimitTruncates ==
    ret.op = "get_memories"
    => C26_Selection(IF ret.limit >= 1 THEN ret.limit ELSE Cardinality(DOMAIN memories))

\* a limit of 1 cut two memories of equal confidence down to the later one
C26_Witness ==
    /\ ret.op = "get_memories"
    /\ ret.limit = 1
    /\ DOMAIN memories = {1, 2}
    /\ memories[1].confidence = memories[2].confidence
    /\ memories[2].last_updated > memories[1].last_updated
    /\ ret.value = <<2>>

\* C28: the clusters of the similar-tool summary group the relevant executions by
\* (weekday, hour // 3): executions of the same 3-hour block on different weekdays
\* are in different clusters, and the significant clusters reported are exactly
\* the groups of at least 3 executions, each with its tools and its time range.
C28_ClustersByWeekdayAndBlock ==
    ( /\ ret.op = "extract_similar_tool_patterns"
      /\ ret.value.message = ""
      /\ ~ret.value.raised
      /\ ret.value.behavioral_clusters.message = "" )
    => LET relevant   == ret.value.relevant
           reported   == ret.value.behavioral_clusters.significant_clusters
           Group(d, b) == {k \in DOMAIN relevant :
                              /\ Weekday(relevant[k].timestamp) = d
                              /\ Hour(relevant[k].timestamp) \div 3 = b}
           groups     == {<<d, b>> \in (0..6) \X (0..7) : Cardinality(Group(d, b)) >= 3}
       IN  /\ Cardinality(DOMAIN reported) = Cardinality(groups)
           /\ \A c \in DOMAIN reported :
                 \E g \in groups :
                    /\ reported[c].execution_count = Cardinality(Group(g[1], g[2]))
                    /\ reported[c].tools_used = {relevant[k].tool : k \in Group(g[1], g[2])}
                    /\ reported[c].time_range = <<3 * g[2], 3 * g[2] + 3>>

\* C29: on empty data the extractors return a "no data" result and raise nothing.
\* With an empty log the temporal extraction returns its message, the usage,
\* sequence and behavioral extractions return empty lists and zero counts (the
\* average sequence length is 0), and the similar-tool extraction returns
\* "No tool executions found" (no target given) or "Insufficient relevant data";
\* with a log that holds no execution of the target inside the window the
\* similar-tool extraction returns a message as well.
C29_NoDataResults ==
    /\ ( ret.op = "generate_pattern_summary" /\ tool_executions = <<>> )
       => /\ ret.temporal.message = "No tool executions found"
          /\ ret.usage.tool_statistics = <<>>
          /\ ret.usage.most_used_tools = <<>>
          /\ ret.sequences.sequence_count = 0
          /\ ret.sequences.common_tool_pairs = <<>>
          /\ ret.sequences.common_tool_triplets = <<>>
          /\ ret.sequences.average_sequence_length = 0
          /\ ret.behavioral.total_analyzed_executions = 0
          /\ ret.behavioral.tools_with_inputs = {}
          /\ ret.behavioral.search_queries = <<>>
    /\ ( ret.op = "extract_similar_tool_patterns" /\ tool_executions = <<>> )
       => /\ ~ret.value.raised
          /\ ret.value.message = IF ret.target_tool = "" THEN "No tool executions found"
                                 ELSE "Insufficient relevant data"
    /\ ( /\ ret.op = "extract_similar_tool_patterns"
         /\ ret.target_tool # ""
         /\ \A k \in DOMAIN Windowed : Windowed[k].tool # ret.target_tool )
       => /\ ~ret.value.raised
          /\ ret.value.message = "Insufficient relevant data"
          /\ ret.value.total_executions = 0

\* the four analytics were asked of an empty log
C29_Witness ==
    /\ ret.op = "generate_pattern_summary"
    /\ tool_executions = <<>>
    /\ ret.temporal.message = "No tool executions found"


\* C30: the similar-tool summary splits the relevant executions into successful
\* and failed ones: every execution whose logged result carries success = false
\* is counted in failed_executions and lowers success_rate, and
\* successful_executions + failed_executions is the number of relevant executions.
C30_FailuresCounted ==
    ( /\ ret.op = "extract_similar_tool_patterns"
      /\ ret.value.message = ""
      /\ ~ret.value.raised )
    => LET relevant == ret.value.relevant
           failed   == {k \in DOMAIN relevant :
                           /\ "result" \in DOMAIN relevant[k]
                           /\ relevant[k].result.success = "false"}
       IN  /\ ret.value.failed_executions = Cardinality(failed)
           /\ ret.value.successful_executions + ret.value.failed_executions = Len(relevant)
           /\ ret.value.success_rate
                = RoundDiv((Len(relevant) - Cardinality(failed)) * SCALE, Len(relevant))

-----------------------------------------------------------------------------
(* tool_callbacks.py: the counting callback of create_after_tool_callback  *)

MaxCount == 11     \* tool executions reported to the counting callback

\* after_tool_callback of create_after_tool_callback(session_id, user_id): the
\* execution is logged for the session, execution_count is incremented, and
\*   if execution_count >= 1: asyncio.create_task(recognize_patterns_async(...))
\* The session's log starts empty and only this callback appends to it, so the
\* nonlocal execution_count is the number of rows logged.  The task is not added
\* to any set.
CountingCallback(tool) ==
    /\ Len(tool_executions) < MaxCount
    /\ LET r == log_tool_execution(tool_executions, exec_seq, tool, EmptyArgs, now)
           execution_count == Len(r.log)
       IN  /\ tool_executions' = r.log
           /\ exec_seq' = r.seq
           /\ tasks' = IF execution_count >= 1 THEN Append(tasks, NewTask(tool))
                       ELSE tasks
    /\ ret' = CallbackRet(tool)
    /\ UNCHANGED <<memories, mem_seq, now, budget, active, waiter, running>>

NextCount == \E tool \in CallbackTools : CountingCallback(tool)

SpecCount == InitStore /\ [][NextCount]_vars

-----------------------------------------------------------------------------
(* The engine under the scheduling of the event loop                       *)

\* callbacks for play_song, the cycles they spawn and the shutdown wait; the
\* analysis call ends by the 30 s timeout or with one list of modifications
NextLive ==
    \/ AfterToolCallback("play_song", EmptyArgs)
    \/ \E t \in 1..MaxTasks : TaskStart(t)
    \/ \E t \in 1..MaxTasks : AnalysisFails(t, "timeout")
    \/ \E t \in 1..MaxTasks :
          AnalysisSucceeds(t, <<Weaken(1), Reinforce(1), Create("likes jazz")>>)
    \/ \E t \in 1..MaxTasks : ApplyStep(t)
    \/ \E t \in 1..MaxTasks : CleanStep(t)
    \/ \E t \in 1..MaxTasks : TaskDoneCallback(t)
    \/ AwaitBegin
    \/ AwaitComplete
    \/ AwaitTimeout

\* a task that create_task has scheduled and that has not run yet
Scheduled(t) == running = 0 /\ t \in DOMAIN tasks /\ tasks[t].pc = "created"

\* The event loop keeps running what is ready: a task that was scheduled, the
\* synchronous code of a coroutine, a done callback that is scheduled; and
\* wait_for(..., timeout=30.0) ends an analysis call that has not returned.  Tool
\* executions and the shutdown wait happen when the assistant decides, or never.
\* TaskStart(t) is enabled exactly when Scheduled(t) holds and it ends
\* Scheduled(t), so its weak fairness is []<>~Scheduled(t).
SpecLive ==
    /\ Init
    /\ [][NextLive]_vars
    /\ \A t \in 1..MaxTasks : []<>~Scheduled(t)
    /\ WF_vars(\E t \in 1..MaxTasks :
                  \/ AnalysisFails(t, "timeout")
                  \/ ApplyStep(t)
                  \/ CleanStep(t)
                  \/ TaskDoneCallback(t))

-----------------------------------------------------------------------------
(* The relevance filter over two executions of any two tools               *)

\* every tool _get_related_tools names, and one it does not name
ToolNames ==
    music_tools \cup search_tools \cup browse_tools \cup memory_tools
        \cup file_tools \cup comm_tools \cup {"get_weather"}

\* the log holds one execution of each of two tools, made in the same minute with
\* empty arguments: only the tool names can relate them
InitRelated ==
    /\ memories = EmptyTable
    /\ mem_seq = 0
    /\ tool_executions \in {<<Exec(1, A, EmptyArgs, FilterNow), Exec(2, B, EmptyArgs, FilterNow)>> :
                               A \in ToolNames, B \in ToolNames}
    /\ exec_seq = 2
    /\ now = FilterNow
    /\ ret = NoRet
    /\ budget = 0
    /\ tasks = <<>>
    /\ active = {}
    /\ waiter = NoWaiter
    /\ running = 0

NextRelated ==
    \E k \in 1..Len(tool_executions) : FilterRelevantExecutions(tool_executions[k].tool)

SpecRelated == InitRelated /\ [][NextRelated]_vars

-----------------------------------------------------------------------------
(* Claims C31 .. C40                                                       *)

\* C31: for a completed action of a memory tool (search_memory, save_memory,
\* get_all_memories, modify_memory, delete_memory) after_tool_callback logs nothing
\* and starts no cycle: the execution log, the memory table and the active-task
\* set are unchanged, and it returns None.
C31_MemoryToolsAreSkipped ==
    [][ ( /\ ret'.op = "after_tool_callback"
          /\ ret'.tool \in {"search_memory", "save_memory", "get_all_memories",
                            "modify_memory", "delete_memory"} )
        => /\ UNCHANGED <<tool_executions, exec_seq, memories, mem_seq, tasks, active>>
           /\ ret'.value = "None" ]_vars

\* every memory tool can be the one last reported, after an execution was logged
C31_Witness ==
    /\ ret.op = "after_tool_callback"
    /\ ret.tool = "delete_memory"
    /\ Len(tool_executions) > Len(SeedLog)


\* C32: the counting callback triggers pattern recognition every 10 tool
\* executions: at least 10 executions are logged for every cycle started, so
\* executions that do not reach the count are logged without starting a cycle.
C32_TriggerEveryTenth ==
    Len(tasks) * 10 <= Len(tool_executions)


\* C33: whatever the factor, a negative one included, reinforce_memory and
\* weaken_memory never store a confidence below 0 for a memory whose confidence
\* was in [0, 1].
C33_NeverBelowZero ==
    [][ ( /\ \/ DirectCall("reinforce_memory")
             \/ DirectCall("weaken_memory")
          /\ ret'.id \in DOMAIN memories
          /\ memories[ret'.id].confidence \in 0..SCALE
          /\ ret'.id \in DOMAIN memories' )
        => memories'[ret'.id].confidence >= 0 ]_vars


\* C34: with several cycles in flight in one event loop, the Applying and Cleaning
\* steps of a cycle run as one uninterrupted block: while a cycle is between the
\* return of the analysis call and its result, no other cycle takes a step, no
\* callback logs an execution or spawns a task, and every change of the store is
\* that cycle's own; so at most one cycle is in that block at a time and cycles
\* interleave only at the analysis call.
C34_ApplyAndCleanUninterrupted ==
    [][ \A t \in DOMAIN tasks :
           tasks[t].pc \in {"applying", "cleaning"}
           => /\ \A u \in DOMAIN tasks \ {t} :
                    /\ tasks'[u] = tasks[u]
                    /\ tasks[u].pc \notin {"applying", "cleaning"}
              /\ DOMAIN tasks' = DOMAIN tasks
              /\ tool_executions' = tool_executions
              /\ active' = active
              /\ tasks'[t].pc \in {"applying", "cleaning", "done"}
              /\ tasks'[t] # tasks[t] ]_vars

\* a cycle is in the middle of its batch while another cycle is suspended in the
\* analysis call
C34_Witness ==
    \E t, u \in DOMAIN tasks :
        /\ tasks[t].pc = "applying"
        /\ tasks[t].idx > 1
        /\ tasks[u].pc = "awaiting"


C36_EveryModificationAccounted ==
    \A t \in DOMAIN tasks :
        ( tasks[t].pc \in {"cleaning", "done"} /\ tasks[t].analysis = "ok" )
        => Len(tasks[t].saved) + Len(tasks[t].failed) = Len(tasks[t].mods)


\* C37: the summary of a successful cycle agrees with what happened to the store.
\* Every step of the loop that appends a "created" entry adds one memory, every
\* step that appends a "deleted" entry removes one, every other step leaves the
\* number of memories as it was, and the sweep removes memories_cleaned_up of
\* them; so the number stored after the cycle is the number before plus the
\* created minus the deleted entries minus memories_cleaned_up.  An entry is
\* appended to saved_insights exactly by the mutations carried out on the store:
\* a create with a text, and a reinforce, weaken or update_content of a memory
\* that is stored.
C37_SummaryAgreesWithStore ==
    [][ \A t \in DOMAIN tasks :
          LET Count(mems) == Cardinality(DOMAIN mems)
              Added(action) ==
                  IF /\ Len(tasks'[t].saved) = Len(tasks[t].saved) + 1
                     /\ tasks'[t].saved[Len(tasks'[t].saved)].action = action
                  THEN 1 ELSE 0
          IN  /\ ( tasks[t].pc = "applying" /\ tasks'[t].idx = tasks[t].idx + 1 )
                 => LET mod == tasks[t].mods[tasks[t].idx]
                        carried_out ==
                            \/ mod.action = "create" /\ mod.memory # ""
                            \/ /\ mod.action \in {"reinforce", "weaken"}
                               /\ mod.id \in DOMAIN memories
                            \/ /\ mod.action = "update_content"
                               /\ mod.id \in DOMAIN memories
                               /\ mod.memory # ""
                    IN  /\ Count(memories') = Count(memories) + Added("created")
                                                              - Added("deleted")
                        /\ Len(tasks'[t].saved)
                             = Len(tasks[t].saved) + (IF carried_out THEN 1 ELSE 0)
                        /\ SubSeq(tasks'[t].saved, 1, Len(tasks[t].saved)) = tasks[t].saved
              /\ ( tasks[t].pc = "cleaning" /\ tasks'[t].pc = "done" )
                 => /\ tasks'[t].result = "success"
                    /\ Count(memories') = Count(memories) - tasks'[t].cleaned
                    /\ tasks'[t].saved = tasks[t].saved ]_vars

\* a successful cycle has created a memory, deleted one by weakening it and swept
\* another
C37_Witness ==
    \E t \in DOMAIN tasks :
        /\ tasks[t].pc = "done"
        /\ tasks[t].result = "success"
        /\ \E k \in DOMAIN tasks[t].saved : tasks[t].saved[k].action = "created"
        /\ \E k \in DOMAIN tasks[t].saved : tasks[t].saved[k].action = "deleted"


C39_NullArgumentsDoNotRaise ==
    ret.op = "_filter_relevant_executions" => ~ret.raised


\* C40: category relatedness used by the relevance filter is symmetric: for all
\* tools A and B, the filter with target A returns the execution of B if and only
\* if the filter with target B returns the execution of A.
C40_RelatednessIsSymmetric ==
    ( ret.op = "_filter_relevant_executions" /\ ~ret.raised )
    => \A a, b \in 1..Len(tool_executions) :
          tool_executions[a].tool = ret.target_tool
          => ( tool_executions[b] \in Range(ret.value)
               <=> tool_executions[a] \in
                      Range(_filter_relevant_executions(
                                get_tool_executions(tool_executions, "", ExecutionLimit),
                                tool_executions[b].tool, DaysToAnalyze, now)) )

=============================================================================
